---- MODULE Spec2Model ----
(***************************************************************************)
(* Abstract file-system state oracle of Metis (src/common/abstract_fs.cpp):*)
(* init_abstract_fs / scan_abstract_fs / destroy_abstract_fs, the nftw     *)
(* callback, the sort of the collected entries and the fold of every entry *)
(* into the running hash context.                                          *)
(*                                                                         *)
(* C strings are sequences of one-character strings.  The hash engines are *)
(* modelled by the sequence of buffers handed to their update calls (fed): *)
(* a digest is an injective image of the reset variant and of that         *)
(* sequence, so two walks have the same signature when the same fed bytes  *)
(* reach the same engine.                                                  *)
(*                                                                         *)
(* Spec is one caller making init, scan, destroy in that order; SpecAPI a  *)
(* caller that keeps no order; SpecPar two threads that scan at the same   *)
(* time; SpecPrint, SpecRetry and SpecValidity are print_abstract_fs_state,*)
(* the retry-wrapped system calls and CheckValidity on their own.          *)
(* SpecWalks is a process that walks several times, with failures that may *)
(* pass.  SpecUnmount, SpecMountall and SpecFreeze are unmount_with_retry, *)
(* mountall and fsfreeze / fsthaw / unfreeze_all of src/fs-state/mount.c;  *)
(* SpecReproducer is the log scan of the minimal bug reproducer.           *)
(***************************************************************************)
EXTENDS Integers, Sequences, FiniteSets, TLC

\* ------------------------------------------------------------------ bounds

\* Largest number of entries below the root directory of a walked tree.
MaxEntries == 3

\* ----------------------------------------------------------------- strings

NUL == "NUL"

\* The characters of the model's paths, in increasing order of their byte value.
Alphabet ==
    << "+", ".", "/", "1", "4", "_", "a", "b", "d", "e", "f", "g", "i", "l",
       "m", "n", "r", "s", "t", "u", "x" >>

\* Byte order of characters (unsigned char comparison); NUL is the smallest.
ord(c) == IF c = NUL THEN 0 ELSE CHOOSE i \in 1..Len(Alphabet) : Alphabet[i] = c

\* std::string operator< : lexicographic, a proper prefix is smaller.
RECURSIVE StrLess(_, _)
StrLess(a, b) ==
    IF b = << >> THEN FALSE
    ELSE IF a = << >> THEN TRUE
    ELSE IF Head(a) # Head(b) THEN ord(Head(a)) < ord(Head(b))
    ELSE StrLess(Tail(a), Tail(b))

\* s begins with p at position 0 (std::string::rfind(p, 0) == 0).
StartsWith(s, p) == Len(s) >= Len(p) /\ SubSeq(s, 1, Len(p)) = p

\* strstr(s, p) != NULL
strstr(s, p) ==
    \E i \in 0..(Len(s) - Len(p)) : SubSeq(s, i + 1, i + Len(p)) = p

\* The C string that starts at offset off of a zero-filled buffer buf: the
\* bytes up to the first NUL (bytes past the written part of buf are zero).
CStr(buf, off) ==
    LET rest == SubSeq(buf, off + 1, Len(buf))
        stop == IF \E i \in 1..Len(rest) : rest[i] = NUL
                THEN (CHOOSE i \in 1..Len(rest) :
                        rest[i] = NUL /\ \A j \in 1..(i - 1) : rest[j] # NUL) - 1
                ELSE Len(rest)
    IN  SubSeq(rest, 1, stop)

Range(s) == { s[i] : i \in 1..Len(s) }

\* ------------------------------------------------------------ program data

MAX_DEPTH == 2

nlink_fs == << <<"e","x","t","4">>, <<"e","x","t","2">>, <<"j","f","f","s","2">> >>

root_dir == << "/" >>

exclusion_list ==
    { <<"/","l","o","s","t","+","f","o","u","n","d">>,
      <<"/",".","n","i","l","f","s">>,
      <<"/",".","m","c","f","s","_","d","u","m","m","y">>,
      <<"/","b","u","i","l","d">> }

\* An exclusion set that lacks the build directory.
is_excluded_without_build(path) ==
    \/ path \in exclusion_list \ { <<"/","b","u","i","l","d">> }
    \/ StartsWith(path, <<".","/","n","f","s">>)

is_excluded(path) ==
    path \in exclusion_list \/ StartsWith(path, <<".","/","n","f","s">>)

\* A depth test that lets one more level through.
depth_exceeded_off_by_one(level) == level > MAX_DEPTH + 1

\* The DIR_DEPTH_CHECK test at the head of nftw_handler.
depth_exceeded(level) == level > MAX_DEPTH

get_abstract_path(fullpath, basepath_len) ==
    IF Len(fullpath) <= basepath_len THEN root_dir
    ELSE SubSeq(fullpath, basepath_len + 1, Len(fullpath))

fs_with_extra_nlink(fpath) ==
    \E i \in 1..Len(nlink_fs) : strstr(fpath, nlink_fs[i])

\* ------------------------------------------------- the file system walked

\* Entries are named by their path below the mount point; the root is << >>.
Root == << >>

LastSlash(p) ==
    CHOOSE i \in 1..Len(p) : p[i] = "/" /\ \A j \in (i + 1)..Len(p) : p[j] # "/"

Parent(p) == SubSeq(p, 1, LastSlash(p) - 1)

\* nftw's FTW.level: 0 for the directory the walk starts at.
Level(p) == Cardinality({ i \in 1..Len(p) : p[i] = "/" })

IsBelow(p, d) == p # d /\ StartsWith(p, d \o <<"/">>)

\* A symbolic link's on-disk content: an absolute path into the same mount
\* (the mount point followed by a path below it) or a relative path.
LinkContent(link, basepath) ==
    IF link.absolute THEN basepath \o link.path ELSE link.path

NoLink == [absolute |-> FALSE, path |-> << >>]

Inode(fmt, perm, size, nlink, link, content) ==
    [ st_mode |-> [fmt |-> fmt, perm |-> perm], st_size |-> size,
      st_nlink |-> nlink, st_uid |-> 0, st_gid |-> 0,
      st_blksize |-> 4096, st_blocks |-> IF size = 0 THEN 0 ELSE 8,
      link |-> link, content |-> content ]

\* The entries a walked tree is built from.  File content is a sequence of
\* chunks, one per successful read() of at most 4096 bytes.
Disk ==
    (Root :> Inode("S_IFDIR", "755", 4096, 3, NoLink, << >>))
 @@ (<<"/","f">> :> Inode("S_IFREG", "644", 5000, 1, NoLink, <<"A", "B">>))
 @@ (<<"/","l">> :>
        Inode("S_IFLNK", "777", 2, 1,
              [absolute |-> TRUE, path |-> <<"/","f">>], << >>))
 @@ (<<"/","s">> :>
        Inode("S_IFLNK", "777", 1, 1,
              [absolute |-> FALSE, path |-> <<"f">>], << >>))
 @@ (<<"/",".","n","f","s","1">> :> Inode("S_IFREG", "600", 0, 1, NoLink, << >>))
 @@ (<<"/","b","u","i","l","d">> :> Inode("S_IFDIR", "755", 4096, 2, NoLink, << >>))
 @@ (<<"/","b","u","i","l","d","/","x">> :>
        Inode("S_IFREG", "600", 7, 1, NoLink, <<"G">>))
 @@ (<<"/","d">> :> Inode("S_IFDIR", "700", 4096, 3, NoLink, << >>))
 @@ (<<"/","d","/","e">> :> Inode("S_IFDIR", "755", 4096, 2, NoLink, << >>))
 @@ (<<"/","d","/","e","/","g">> :> Inode("S_IFREG", "644", 0, 1, NoLink, << >>))

S_ISREG(mode) == mode.fmt = "S_IFREG"
S_ISDIR(mode) == mode.fmt = "S_IFDIR"
S_ISLNK(mode) == mode.fmt = "S_IFLNK"

\* The trees: the root plus at most MaxEntries entries, each with its parent.
Trees ==
    { T \in SUBSET (DOMAIN Disk) :
        /\ Root \in T
        /\ Cardinality(T) <= MaxEntries + 1
        /\ \A p \in T \ {Root} : Parent(p) \in T }

Children(T, d) == { p \in T \ {Root} : Parent(p) = d }

\* Every order in which a physical pre-order traversal can report the entries
\* of T below and including n: directory listing order is unspecified.
RECURSIVE Preorders(_, _), Forests(_, _)
Preorders(T, n) == { <<n>> \o f : f \in Forests(T, Children(T, n)) }
Forests(T, S) ==
    IF S = {} THEN { << >> }
    ELSE UNION { { a \o b : a \in Preorders(T, x), b \in Forests(T, S \ {x}) } :
                 x \in S }

\* The mount points of the file systems under test.
Basepaths == { <<"/","e","x","t","4">>, <<"/","x","f","s">> }

\* The mount point that a full path lies under.
MountOf(fullpath) == CHOOSE bp \in Basepaths : StartsWith(fullpath, bp)

\* ------------------------------------------------------------ I/O faults

\* At most one operation of a walk fails.  kind:
\*   "nftw"     nftw itself fails on reaching entry at (lstat or opendir
\*              error other than EACCES) and returns -1 with errno = err
\*   "dnr"      directory at cannot be read (EACCES): reported as FTW_DNR
\*   "readlink" readlink() on the symbolic link at fails with errno = err
\*   "open"     open() of the regular file at fails with errno = err
\*   "read"     the k-th read() of the regular file at fails with errno = err
\*   "update"   the hash engine reports failure for the k-th chunk of at
\*              (for crc32_t: the running checksum is 0 after that chunk)
NoFault == [kind |-> "none", at |-> Root, k |-> 0, err |-> 0]

\* errno of each failure: ENOMEM, EACCES, EIO, EACCES, EIO.
FaultErrno ==
    [nftw |-> 12, dnr |-> 13, readlink |-> 5, open |-> 13, read |-> 5, update |-> 0]

Fault(kind, p, k) == [kind |-> kind, at |-> p, k |-> k, err |-> FaultErrno[kind]]

Dirs(T)  == { q \in T : S_ISDIR(Disk[q].st_mode) }
Links(T) == { q \in T : S_ISLNK(Disk[q].st_mode) }
Regs(T)  == { q \in T : S_ISREG(Disk[q].st_mode) }

\* A read() fails after the first chunk (or at once, for an empty file); the
\* engine fails on the first chunk.
Faults(T) ==
    {NoFault}
    \cup { Fault("nftw", p, 0) : p \in T }
    \cup { Fault("dnr", p, 0) : p \in Dirs(T) }
    \cup { Fault("readlink", p, 0) : p \in Links(T) }
    \cup { Fault("open", p, 0) : p \in Regs(T) }
    \cup { Fault("read", p, IF Disk[p].content = << >> THEN 1 ELSE 2) :
             p \in Regs(T) }
    \cup { Fault("update", p, 1) :
             p \in { q \in Regs(T) : Disk[q].content # << >> } }

\* ------------------------------------------------------------ hash engine

xxh128_t == "xxh128_t"
xxh3_t   == "xxh3_t"
md5_t    == "md5_t"
crc32_t  == "crc32_t"
\* Any value of hash_option outside the four above.
other_t  == "other_t"

HashOptions == {xxh128_t, xxh3_t, md5_t, crc32_t, other_t}

\* A hash context.  mem: "unset" (never created), "live" (heap object),
\* "inline" (a member of absfs_t), "null" (a zeroed pointer) or "freed";
\* reset: the reset it was last given; fed: the buffers of the update calls
\* since; nfinal: the digests taken since the reset; misused: an update or a
\* digest was applied to it when it was not usable.
Ctx(mem, reset, fed) ==
    [mem |-> mem, reset |-> reset, fed |-> fed, nfinal |-> 0, misused |-> FALSE]

\* A context may be updated or finalized while it exists and no digest has
\* been taken from it.
Usable(ctx) == ctx.mem \in {"live", "inline"} /\ ctx.nfinal = 0

UnsetCtx == Ctx("unset", "none", << >>)

\* absfs->state right after memset(absfs->state, 0, ...).
ZeroState == [alg |-> "none", reset |-> "none", fed |-> << >>]

\* absfs->state before init_abstract_fs: whatever the caller's memory held.
UninitState == [alg |-> "uninit", reset |-> "none", fed |-> << >>]

\* The digest of a context; crc32 of no data from a zero start value is 0.
Digest(alg, ctx) ==
    IF alg = crc32_t /\ ctx.reset = "zero" /\ ctx.fed = << >> THEN ZeroState
    ELSE [alg |-> alg, reset |-> ctx.reset, fed |-> ctx.fed]

Update(ctx, buf) ==
    [ctx EXCEPT !.fed = Append(@, buf), !.misused = @ \/ ~Usable(ctx)]

\* Taking the digest of a context.
Final(ctx) == [ctx EXCEPT !.nfinal = @ + 1, !.misused = @ \/ ~Usable(ctx)]

\* The buffer of one update call: a string (str) or an attribute block.
NoAttrs == [mode |-> [fmt |-> "", perm |-> ""], size |-> 0, nlink |-> 0,
            uid |-> 0, gid |-> 0]
StrBuf(str)     == [str |-> str, block |-> FALSE, attrs |-> NoAttrs]
AttrsBuf(attrs) == [str |-> << >>, block |-> TRUE, attrs |-> attrs]

\* The context that hash_option selects in FeedHasher and hash_file_content.
Selected(absfs) ==
    CASE absfs.hash_option \in {xxh128_t, xxh3_t} -> absfs.xxh_state
      [] absfs.hash_option = md5_t -> absfs.md5_state
      [] absfs.hash_option = crc32_t -> absfs.crc32_state
      [] OTHER -> UnsetCtx

\* One update call of the selected engine (the switch on hash_option).
HashUpdate(absfs, buf) ==
    CASE absfs.hash_option \in {xxh128_t, xxh3_t} ->
            [absfs EXCEPT !.xxh_state = Update(@, buf)]
      [] absfs.hash_option = md5_t ->
            [absfs EXCEPT !.md5_state = Update(@, buf)]
      [] absfs.hash_option = crc32_t ->
            [absfs EXCEPT !.crc32_state = Update(@, buf)]
      [] OTHER -> absfs

init_abstract_fs(absfs, openssl3) ==
    LET a == CASE absfs.hash_option = xxh128_t ->
                    [absfs EXCEPT !.xxh_state = Ctx("live", "XXH3_64bits", << >>)]
               [] absfs.hash_option = xxh3_t ->
                    [absfs EXCEPT !.xxh_state = Ctx("live", "XXH3_128bits", << >>)]
               [] absfs.hash_option = md5_t ->
                    [absfs EXCEPT !.md5_state =
                        Ctx(IF openssl3 THEN "live" ELSE "inline", "md5", << >>)]
               [] absfs.hash_option = crc32_t ->
                    [absfs EXCEPT !.md5_state =
                        Ctx(IF openssl3 THEN "null" ELSE "inline", "zero", << >>)]
               [] OTHER -> absfs
    IN  [a EXCEPT !.state = ZeroState]

destroy_abstract_fs(absfs) ==
    IF absfs.hash_option \in {xxh128_t, xxh3_t}
    THEN [absfs EXCEPT !.xxh_state.mem = "freed"]
    ELSE absfs

\* The switch of scan_abstract_fs that takes the digest; ret is walk's result.
Finalize(absfs, ret, openssl3) ==
    CASE absfs.hash_option \in {xxh128_t, xxh3_t} ->
            [ret |-> ret,
             absfs |-> [absfs EXCEPT
                 !.state = Digest(absfs.hash_option, absfs.xxh_state),
                 !.xxh_state = Final(@)]]
      [] absfs.hash_option = md5_t ->
            [ret |-> ret,
             absfs |-> [absfs EXCEPT
                 !.state = Digest(md5_t, absfs.md5_state),
                 !.md5_state =
                     [Final(@) EXCEPT !.mem = IF openssl3 THEN "freed" ELSE @]]]
      [] absfs.hash_option = crc32_t ->
            [ret |-> ret,
             absfs |-> [absfs EXCEPT
                 !.state = Digest(crc32_t, absfs.crc32_state),
                 !.crc32_state = Final(@)]]
      [] OTHER -> [ret |-> -1, absfs |-> absfs]

\* ------------------------------------------------------- content hasher

\* What the operating system answers for the file at fullpath: whether
\* open() fails, the chunks read() returns, which read() fails, and which
\* update call the engine reports as failed.  The faults are those of the
\* file system mounted at basepath.
FileIO(fullpath, basepath, fault) ==
    LET rel == SubSeq(fullpath, Len(MountOf(fullpath)) + 1, Len(fullpath))
        hit == fault.at = rel /\ StartsWith(fullpath, basepath)
    IN  [ content     |-> Disk[rel].content,
          open_errno  |-> IF hit /\ fault.kind = "open" THEN fault.err ELSE 0,
          read_fail   |-> IF hit /\ fault.kind = "read" THEN fault.k ELSE 0,
          read_errno  |-> IF hit /\ fault.kind = "read" THEN fault.err ELSE 0,
          update_fail |-> IF hit /\ fault.kind = "update" THEN fault.k ELSE 0 ]

\* The read loop of hash_file_content from the i-th read() on.
RECURSIVE ReadLoop(_, _, _, _)
ReadLoop(absfs, io, i, errno) ==
    IF io.read_fail = i
    THEN [ret |-> -io.read_errno, absfs |-> absfs, exited |-> FALSE,
          errno |-> io.read_errno]
    ELSE IF i > Len(io.content)
    THEN [ret |-> 0, absfs |-> absfs, exited |-> FALSE, errno |-> errno]
    ELSE IF absfs.hash_option \notin {xxh128_t, xxh3_t, md5_t, crc32_t}
    THEN [ret |-> 0, absfs |-> absfs, exited |-> TRUE, errno |-> errno]
    ELSE IF io.update_fail = i
    THEN [ret |-> 1,
          absfs |-> IF absfs.hash_option = crc32_t
                    THEN HashUpdate(absfs, StrBuf(<< io.content[i] >>))
                    ELSE absfs,
          exited |-> FALSE, errno |-> errno]
    ELSE ReadLoop(HashUpdate(absfs, StrBuf(<< io.content[i] >>)), io, i + 1, errno)

\* 0 for success, +1 for an update failure, -errno for open() or read().
hash_file_content(absfs, io, errno) ==
    IF io.open_errno # 0
    THEN [ret |-> -io.open_errno, absfs |-> absfs, exited |-> FALSE,
          errno |-> io.open_errno]
    ELSE ReadLoop(absfs, io, 1, errno)

\* ---------------------------------------------------- state accumulator

\* A fold that hashes the size the file system reported for every entry.
FeedHasher_keeps_size(file, absfs, io, errno) ==
    LET a1 == HashUpdate(absfs, StrBuf(file.abstract_path))
        a2 == HashUpdate(a1, StrBuf(file.target_relpath))
        a3 == HashUpdate(a2, AttrsBuf(file.attrs))
        h  == IF S_ISREG(file.attrs.mode) THEN hash_file_content(a3, io, errno)
              ELSE [ret |-> 0, absfs |-> a3, exited |-> FALSE, errno |-> errno]
    IN  [ file   |-> file,
          absfs  |-> h.absfs,
          exited |-> h.exited,
          hfc    |-> h.ret,
          errno  |-> h.errno ]

\* A fold that does not assign the size back after use.
FeedHasher_size_left_zeroed(file, absfs, io, errno) ==
    LET attrs == IF ~S_ISREG(file.attrs.mode)
                 THEN [file.attrs EXCEPT !.size = 0] ELSE file.attrs
        a1 == HashUpdate(absfs, StrBuf(file.abstract_path))
        a2 == HashUpdate(a1, StrBuf(file.target_relpath))
        a3 == HashUpdate(a2, AttrsBuf(attrs))
        h  == IF S_ISREG(attrs.mode) THEN hash_file_content(a3, io, errno)
              ELSE [ret |-> 0, absfs |-> a3, exited |-> FALSE, errno |-> errno]
    IN  [ file   |-> [file EXCEPT !.attrs = attrs],
          absfs  |-> h.absfs,
          exited |-> h.exited,
          hfc    |-> h.ret,
          errno  |-> h.errno ]

\* A fold that feeds the attribute block before the link target.
FeedHasher_block_first(file, absfs, io, errno) ==
    LET fsize == file.attrs.size
        attrs == IF ~S_ISREG(file.attrs.mode)
                 THEN [file.attrs EXCEPT !.size = 0] ELSE file.attrs
        a1 == HashUpdate(absfs, StrBuf(file.abstract_path))
        a2 == HashUpdate(a1, AttrsBuf(attrs))
        a3 == HashUpdate(a2, StrBuf(file.target_relpath))
        h  == IF S_ISREG(attrs.mode) THEN hash_file_content(a3, io, errno)
              ELSE [ret |-> 0, absfs |-> a3, exited |-> FALSE, errno |-> errno]
    IN  [ file   |-> [file EXCEPT !.attrs = [attrs EXCEPT !.size = fsize]],
          absfs  |-> h.absfs,
          exited |-> h.exited,
          hfc    |-> h.ret,
          errno  |-> h.errno ]

\* AbstractFile::FeedHasher: the path, the link target and the attribute
\* block, then the content of a regular file.  hfc is what
\* hash_file_content returned (0 when it was not called); the caller never
\* sees it.
FeedHasher(file, absfs, io, errno) ==
    LET fsize == file.attrs.size
        attrs == IF ~S_ISREG(file.attrs.mode)
                 THEN [file.attrs EXCEPT !.size = 0] ELSE file.attrs
        a1 == HashUpdate(absfs, StrBuf(file.abstract_path))
        a2 == HashUpdate(a1, StrBuf(file.target_relpath))
        a3 == HashUpdate(a2, AttrsBuf(attrs))
        h  == IF S_ISREG(attrs.mode) THEN hash_file_content(a3, io, errno)
              ELSE [ret |-> 0, absfs |-> a3, exited |-> FALSE, errno |-> errno]
    IN  [ file   |-> [file EXCEPT !.attrs = [attrs EXCEPT !.size = fsize]],
          absfs  |-> h.absfs,
          exited |-> h.exited,
          hfc    |-> h.ret,
          errno  |-> h.errno ]

\* ----------------------------------------------------------- tree walker

FTW_CONTINUE     == "FTW_CONTINUE"
FTW_STOP         == "FTW_STOP"
FTW_SKIP_SUBTREE == "FTW_SKIP_SUBTREE"
\* The callback did not return: it called exit(EXIT_FAILURE).
EXITED           == "EXITED"

\* readlink(fpath, target, PATH_MAX - 1) stores data at the start of the
\* buffer; the callback then stores the terminating NUL after it.  The rest
\* of the buffer keeps what earlier calls left there.
StoreLink(buf, data) ==
    data \o <<NUL>> \o SubSeq(buf, Len(data) + 2, Len(buf))

\* The nftw callback for the entry fpath.  rl is the outcome of readlink on
\* it: [errno |-> e # 0] for a failure, [errno |-> 0, data |-> link content].
nftw_handler(fpath, finfo, typeflag, level, rl, basepath_len, files, buf, errno) ==
    LET abspath == get_abstract_path(fpath, basepath_len)
        same    == [ret |-> FTW_CONTINUE, walker_files |-> files,
                    target |-> buf, errno |-> errno]
    IN  IF depth_exceeded(level) THEN [same EXCEPT !.ret = EXITED]
        ELSE IF is_excluded(abspath) THEN [same EXCEPT !.ret = FTW_SKIP_SUBTREE]
        ELSE IF typeflag = "FTW_SL" /\ rl.errno # 0
        THEN [same EXCEPT !.ret = FTW_STOP, !.errno = rl.errno]
        ELSE
        LET buf2 == IF typeflag = "FTW_SL" THEN StoreLink(buf, rl.data) ELSE buf
            file == [ fullpath       |-> fpath,
                      abstract_path  |-> abspath,
                      target_relpath |-> IF typeflag = "FTW_SL"
                                         THEN CStr(buf2, basepath_len)
                                         ELSE << >>,
                      attrs |-> [ mode  |-> finfo.st_mode,
                                  size  |-> finfo.st_size,
                                  nlink |-> IF fs_with_extra_nlink(fpath)
                                               /\ abspath = root_dir
                                            THEN finfo.st_nlink - 1
                                            ELSE finfo.st_nlink,
                                  uid   |-> finfo.st_uid,
                                  gid   |-> finfo.st_gid ],
                      xattrs |-> [ blksize |-> finfo.st_blksize,
                                   blocks  |-> finfo.st_blocks ] ]
        IN  [ret |-> FTW_CONTINUE, walker_files |-> Append(files, file),
             target |-> buf2, errno |-> errno]

\* The type flag nftw (FTW_PHYS) reports for entry p.
TypeFlag(p, fault) ==
    CASE S_ISLNK(Disk[p].st_mode) -> "FTW_SL"
      [] S_ISDIR(Disk[p].st_mode) ->
            IF fault.kind = "dnr" /\ fault.at = p THEN "FTW_DNR" ELSE "FTW_D"
      [] OTHER -> "FTW_F"

ReadLink(p, basepath, fault) ==
    IF fault.kind = "readlink" /\ fault.at = p
    THEN [errno |-> fault.err, data |-> << >>]
    ELSE [errno |-> 0, data |-> LinkContent(Disk[p].link, basepath)]

\* One step of nftw(basepath, nftw_handler, nopenfd, FTW_PHYS |
\* FTW_ACTIONRETVAL): todo is the pre-order still ahead.  done says that nftw
\* returns, and res is what it returns: -1 for its own failure, 1 (FTW_STOP)
\* when the callback stopped the walk, 0 at the end of the tree.
nftw_step(todo, basepath, fault, basepath_len, files, buf, errno) ==
    LET p == Head(todo)
        stay == [done |-> FALSE, res |-> 0, todo |-> todo,
                 walker_files |-> files, target |-> buf, errno |-> errno,
                 exited |-> FALSE]
    IN  IF todo = << >> THEN [stay EXCEPT !.done = TRUE]
        ELSE IF fault.kind = "nftw" /\ fault.at = p
        THEN [stay EXCEPT !.done = TRUE, !.res = -1, !.errno = fault.err]
        ELSE
        LET flag == TypeFlag(p, fault)
            h == nftw_handler(basepath \o p, Disk[p], flag, Level(p),
                              ReadLink(p, basepath, fault), basepath_len,
                              files, buf, errno)
            pruned == SelectSeq(Tail(todo), LAMBDA q : ~IsBelow(q, p))
            next == [stay EXCEPT !.walker_files = h.walker_files,
                                 !.target = h.target, !.errno = h.errno]
        IN  CASE h.ret = EXITED -> [next EXCEPT !.exited = TRUE]
              [] h.ret = FTW_STOP -> [next EXCEPT !.done = TRUE, !.res = 1]
              [] h.ret = FTW_SKIP_SUBTREE \/ flag = "FTW_DNR" ->
                    [next EXCEPT !.todo = pruned]
              [] OTHER -> [next EXCEPT !.todo = Tail(todo)]

\* do_walk's result from nftw's.
do_walk_result(res, errno) == IF res < 0 THEN -errno ELSE 0

\* std::sort(files.begin(), files.end(), abspath_cmp): insertion of each
\* element before the first one that is not smaller.
abspath_cmp(a, b) == StrLess(a.abstract_path, b.abstract_path)

RECURSIVE Insert(_, _)
Insert(f, sorted) ==
    IF sorted = << >> THEN << f >>
    ELSE IF abspath_cmp(Head(sorted), f) THEN << Head(sorted) >> \o Insert(f, Tail(sorted))
    ELSE << f >> \o sorted

\* A walk that folds the entries in the order nftw delivered them.
Sort_omitted(files) == files

RECURSIVE Sort(_)
Sort(files) ==
    IF files = << >> THEN << >> ELSE Insert(Head(files), Sort(Tail(files)))

\* ------------------------------------------------------------------ state

\* The types of the file systems under test: one of the nlink_fs family and
\* one outside it.
FsTypes == { <<"e","x","t","4">>, <<"x","f","s">> }

VARIABLES
    \* the environment of one run
    tree,            \* the entries of the mounted file system
    order,           \* the pre-order in which nftw would report them
    basepath,        \* the mount point handed to scan_abstract_fs
    fstype,          \* the type of the file system mounted there
    fault,           \* the operation that fails, if any
    openssl3,        \* built with OPENSSL_VERSION_NUMBER >= 0x30000000L
    \* the program
    pc,              \* where the caller of the library is
    absfs,           \* the absfs_t of the caller
    walker_basepath, basepath_len, walker_files, target,
    todo,            \* nftw: the entries still to report
    idx,             \* walk: position of the for loop over walker_files
    ret,             \* scan_abstract_fs: the status it returns
    errno,
    \* history
    occurred,        \* the fault, once the failing operation has happened
    delivered,       \* walker_files as nftw left it, before the sort
    visited,         \* the entries the callback was called for in this walk
    ncalls,          \* library calls made out of the init-scan-destroy order
    \* the parts of the program that a walk does not run
    prn,             \* print_abstract_fs_state: the array, the loop, the output
    peer,            \* a second thread that walks another file system
    sys,             \* a retry-wrapped system call in progress
    chk,             \* CheckValidity: the record checked and the verdict
    mnt,             \* mount.c: the mount table and the call in progress
    rep              \* the reproducer: its scan of the sequence log

env  == << tree, order, basepath, fstype, fault, openssl3 >>
glob == << walker_basepath, basepath_len, walker_files, target >>
vars == << tree, order, basepath, fstype, fault, openssl3, pc, absfs, walker_basepath,
           basepath_len, walker_files, target, todo, idx, ret, errno, occurred,
           delivered, visited, ncalls, prn, peer, sys, chk, mnt, rep >>
hist == << occurred, delivered, visited, ncalls >>
aside == << prn, peer, sys, chk, mnt, rep >>

\* An absfs_t as its owner declares it: only hash_option is set.  The
\* checksum member is not written by init_abstract_fs, so it starts as
\* whatever the memory holds, zero or not.
NewAbsfs(opt, crc) ==
    [ hash_option |-> opt,
      xxh_state   |-> UnsetCtx,
      md5_state   |-> UnsetCtx,
      crc32_state |-> Ctx("inline", crc, << >>),
      state       |-> UninitState ]

\* The walker before the first call of its owner.
WalkerAtStart ==
    /\ pc = "start"
    /\ walker_basepath = << >>
    /\ basepath_len = 0
    /\ walker_files = << >>
    /\ target = << >>
    /\ todo = << >>
    /\ idx = 0
    /\ ret = 0
    /\ errno = 0
    /\ occurred = NoFault
    /\ delivered = << >>
    /\ visited = << >>
    /\ ncalls = 0

\* No signature is being printed.
NoPrint == [hash_option |-> xxh128_t, hash |-> << >>, i |-> 0, out |-> << >>]

\* There is no second thread, no wrapped system call and no validity check.
NoPeer == [pc |-> "none"]
NoSys  == [pc |-> "none"]
NoChk  == [pc |-> "none"]

\* No call of mount.c is in progress and no reproducer runs.
NoMnt  == [pc |-> "none"]
NoRep  == [pc |-> "none"]

\* The runs: every tree and listing order, walked without a failure from
\* every mount point on every type of file system, or with one failing
\* operation from the mount point /ext4 of an ext4 file system (no failure
\* path reads the mount point or the type).
Init ==
    /\ tree \in Trees
    /\ order \in Preorders(tree, Root)
    /\ fault \in Faults(tree)
    /\ basepath \in (IF fault = NoFault THEN Basepaths
                     ELSE { <<"/","e","x","t","4">> })
    /\ fstype \in (IF fault = NoFault THEN FsTypes ELSE { <<"e","x","t","4">> })
    /\ \E opt \in HashOptions :
         /\ openssl3 \in (IF opt = md5_t THEN BOOLEAN ELSE {TRUE})
         /\ \E crc \in (IF opt = crc32_t THEN {"zero", "garbage"} ELSE {"zero"}) :
              absfs = NewAbsfs(opt, crc)
    /\ WalkerAtStart
    /\ prn = NoPrint
    /\ peer = NoPeer
    /\ sys = NoSys
    /\ mnt = NoMnt
    /\ rep = NoRep
    /\ chk = NoChk

\* ---------------------------------------------------------------- actions

\* init_abstract_fs(&absfs).
CallInit ==
    /\ absfs' = init_abstract_fs(absfs, openssl3)
    /\ pc' = "inited"
    /\ UNCHANGED << env, aside, glob, todo, idx, ret, errno, occurred, delivered,
                    visited >>

\* scan_abstract_fs -> walk -> do_walk, up to the call of nftw.
CallScan ==
    /\ walker_basepath' = basepath
    /\ basepath_len' = Len(basepath)
    /\ walker_files' = << >>
    /\ todo' = order
    /\ visited' = << >>
    /\ pc' = "nftw"
    /\ UNCHANGED << env, aside, absfs, target, idx, ret, errno, occurred, delivered >>

\* destroy_abstract_fs(&absfs).
CallDestroy ==
    /\ absfs' = destroy_abstract_fs(absfs)
    /\ pc' = "destroyed"
    /\ UNCHANGED << env, aside, glob, todo, idx, ret, errno, occurred, delivered,
                    visited >>

Supported == absfs.hash_option \in {xxh128_t, xxh3_t, md5_t, crc32_t}

\* The caller initializes its accumulator,
InitAbstractFs == pc = "start" /\ CallInit /\ UNCHANGED ncalls

\* walks the tree,
ScanAbstractFs == pc = "inited" /\ CallScan /\ UNCHANGED ncalls

NftwStep == nftw_step(todo, basepath, fault, basepath_len, walker_files,
                      target, errno)

\* The failing operation of this nftw step, if the fault is met in it.
NftwFault(s) ==
    IF \/ s.res # 0
       \/ (todo # << >> /\ ~s.exited /\ TypeFlag(Head(todo), fault) = "FTW_DNR")
    THEN fault ELSE occurred

\* nftw reports one entry and the callback returns to it.
NftwCallback ==
    /\ pc = "nftw"
    /\ LET s == NftwStep IN
         /\ ~s.done /\ ~s.exited
         /\ todo' = s.todo
         /\ walker_files' = s.walker_files
         /\ target' = s.target
         /\ errno' = s.errno
         /\ occurred' = NftwFault(s)
         /\ visited' = Append(visited, Head(todo))
    /\ UNCHANGED << env, aside, pc, absfs, walker_basepath, basepath_len, idx, ret,
                    delivered, ncalls >>

\* The callback finds an entry deeper than MAX_DEPTH and ends the process.
NftwDepthExit ==
    /\ pc = "nftw"
    /\ NftwStep.exited
    /\ pc' = "exited"
    /\ UNCHANGED << env, aside, absfs, glob, todo, idx, ret, errno, hist >>

\* nftw returns; do_walk and walk look at its result, and walk sorts the
\* collected entries when do_walk did not fail.
NftwReturn ==
    /\ pc = "nftw"
    /\ LET s == NftwStep
           r == do_walk_result(s.res, s.errno)
       IN /\ s.done /\ ~s.exited
          /\ target' = s.target
          /\ errno' = s.errno
          /\ occurred' = NftwFault(s)
          /\ todo' = << >>
          /\ delivered' = s.walker_files
          /\ visited' = IF s.res = 1 THEN Append(visited, Head(todo)) ELSE visited
          /\ IF r < 0
             THEN /\ walker_files' = s.walker_files
                  /\ ret' = r
                  /\ idx' = idx
                  /\ pc' = "digest"
             ELSE /\ walker_files' = Sort(s.walker_files)
                  /\ ret' = ret
                  /\ idx' = 1
                  /\ pc' = "fold"
    /\ UNCHANGED << env, aside, absfs, walker_basepath, basepath_len, ncalls >>

FoldStep ==
    FeedHasher(walker_files[idx], absfs,
               FileIO(walker_files[idx].fullpath, basepath, fault), errno)

\* One iteration of walk's loop: file.FeedHasher(fs).
FeedEntry ==
    /\ pc = "fold"
    /\ idx <= Len(walker_files)
    /\ LET r == FoldStep IN
         /\ absfs' = r.absfs
         /\ walker_files' = [walker_files EXCEPT ![idx] = r.file]
         /\ errno' = r.errno
         /\ occurred' = IF r.hfc # 0 THEN fault ELSE occurred
         /\ IF r.exited
            THEN pc' = "exited" /\ idx' = idx
            ELSE pc' = pc /\ idx' = idx + 1
    /\ UNCHANGED << env, aside, walker_basepath, basepath_len, target, todo, ret,
                    delivered, visited, ncalls >>

\* walk's loop is over: return 0.
WalkReturn ==
    /\ pc = "fold"
    /\ idx > Len(walker_files)
    /\ ret' = 0
    /\ pc' = "digest"
    /\ UNCHANGED << env, aside, absfs, glob, todo, idx, errno, hist >>

\* scan_abstract_fs takes the digest and returns.
ScanReturn ==
    /\ pc = "digest"
    /\ LET f == Finalize(absfs, ret, openssl3) IN
         /\ absfs' = f.absfs
         /\ ret' = f.ret
    /\ pc' = "returned"
    /\ UNCHANGED << env, aside, glob, todo, idx, errno, hist >>

\* and releases the accumulator after the walk.
DestroyAbstractFs == pc = "returned" /\ CallDestroy /\ UNCHANGED ncalls

Next ==
    \/ InitAbstractFs
    \/ ScanAbstractFs
    \/ NftwCallback
    \/ NftwDepthExit
    \/ NftwReturn
    \/ FeedEntry
    \/ WalkReturn
    \/ ScanReturn
    \/ DestroyAbstractFs

Spec == Init /\ [][Next]_vars

\* ------------------------------------------- a caller that keeps no order

\* Largest number of library calls of such a caller.
MaxCalls == 3

\* The library checks no order of its three calls.  This caller initializes
\* its accumulator first and then makes calls in any order, up to MaxCalls in
\* all, each when the one before has returned.
AtRest == pc \in {"start", "inited", "returned", "destroyed"}

AnyInit ==
    AtRest /\ ncalls < MaxCalls /\ CallInit /\ ncalls' = ncalls + 1

AnyScan ==
    /\ AtRest /\ pc # "start"
    /\ ncalls < MaxCalls /\ CallScan /\ ncalls' = ncalls + 1

AnyDestroy ==
    /\ AtRest /\ pc # "start"
    /\ ncalls < MaxCalls /\ CallDestroy /\ ncalls' = ncalls + 1

\* A use of a context that was never created or is already freed is
\* undefined: besides going on as if the memory were intact, the process
\* may end there.
UndefinedUseCrash ==
    /\ pc \in {"fold", "digest"}
    /\ Supported
    /\ Selected(absfs).mem \in {"unset", "freed"}
    /\ pc' = "crashed"
    /\ UNCHANGED << env, aside, absfs, glob, todo, idx, ret, errno, hist >>

ApiTrees ==
    { {Root}, {Root, <<"/","f">>}, {Root, <<"/","l">>},
      {Root, <<"/","d">>, <<"/","d","/","e">>, <<"/","d","/","e","/","g">>} }

InitAPI == Init /\ tree \in ApiTrees /\ fault = NoFault

NextAPI ==
    \/ AnyInit
    \/ AnyScan
    \/ AnyDestroy
    \/ NftwCallback
    \/ NftwDepthExit
    \/ NftwReturn
    \/ FeedEntry
    \/ WalkReturn
    \/ ScanReturn
    \/ UndefinedUseCrash

SpecAPI == InitAPI /\ [][NextAPI]_vars

\* ------------------------------------------- a whole walk as one function

\* nftw from the pre-order todo to its return (or to the callback's exit).
RECURSIVE NftwRun(_, _, _, _, _, _, _)
NftwRun(td, bp, flt, bplen, files, buf, en) ==
    LET s == nftw_step(td, bp, flt, bplen, files, buf, en)
    IN  IF s.done \/ s.exited THEN s
        ELSE NftwRun(s.todo, bp, flt, bplen, s.walker_files, s.target, s.errno)

\* walk's loop over files from position i on.
RECURSIVE FoldRun(_, _, _, _, _, _)
FoldRun(files, i, a, bp, flt, en) ==
    IF i > Len(files) THEN [absfs |-> a, exited |-> FALSE]
    ELSE LET r == FeedHasher(files[i], a, FileIO(files[i].fullpath, bp, flt), en)
         IN  IF r.exited THEN [absfs |-> r.absfs, exited |-> TRUE]
             ELSE FoldRun(files, i + 1, r.absfs, bp, flt, r.errno)

\* walk's loop over the sorted files, then the digest.
FoldSorted(sorted, a, bp, flt, ossl) ==
    LET f == FoldRun(sorted, 1, a, bp, flt, 0)
        d == Finalize(f.absfs, 0, ossl)
    IN  IF f.exited THEN [exited |-> TRUE, ret |-> 0, absfs |-> f.absfs]
        ELSE [exited |-> FALSE, ret |-> d.ret, absfs |-> d.absfs]

\* walk's sort and loop over the collected files, then the digest.
FoldAndDigest(files, a, bp, flt, ossl) ==
    FoldSorted(Sort(files), a, bp, flt, ossl)

\* scan_abstract_fs(a, bp, ...) on the tree whose pre-order is po.
ScanRun(a, bp, po, flt, ossl) ==
    LET n == NftwRun(po, bp, flt, Len(bp), << >>, << >>, 0)
        r == do_walk_result(n.res, n.errno)
        d == Finalize(a, r, ossl)
    IN  IF n.exited THEN [exited |-> TRUE, ret |-> 0, absfs |-> a]
        ELSE IF r < 0 THEN [exited |-> FALSE, ret |-> d.ret, absfs |-> d.absfs]
        ELSE FoldAndDigest(n.walker_files, a, bp, flt, ossl)

\* The accumulator of this run as init_abstract_fs left it.
InitialAbsfs ==
    init_abstract_fs(NewAbsfs(absfs.hash_option, absfs.crc32_state.reset),
                     openssl3)

\* The stepwise walk and the one-function walk agree.
StepwiseAgrees ==
    /\ pc = "returned" =>
         LET w == ScanRun(InitialAbsfs, basepath, order, fault, openssl3)
         IN  ~w.exited /\ w.ret = ret /\ w.absfs = absfs
    /\ pc = "exited" =>
         ScanRun(InitialAbsfs, basepath, order, fault, openssl3).exited

TypeOK ==
    /\ pc \in {"start", "inited", "nftw", "fold", "digest", "returned",
               "destroyed", "exited", "crashed"}
    /\ tree \in Trees
    /\ ret \in Int
    /\ idx \in Nat
    /\ ncalls \in 0..MaxCalls

\* ----------------------------------------------------------------- claims

Returned  == pc \in {"returned", "destroyed"}

RECURSIVE Perms(_)
Perms(S) ==
    IF S = {} THEN { << >> }
    ELSE UNION { { << x >> \o q : q \in Perms(S \ {x}) } : x \in S }

\* The permutations of 1..n, for every length of a collected list.
PermsOf == [n \in 0..(MaxEntries + 1) |-> Perms(1..n)]

\* Every order of the elements of the sequence files.
Orderings(files) ==
    { [i \in 1..Len(files) |-> files[q[i]]] : q \in PermsOf[Len(files)] }

\* What reaches the hash engine of an accumulator, and its signature.
Hashed(a) == << Selected(a).fed, a.state >>

\* C1: when scan_abstract_fs returns a non-zero status, absfs->state still
\* holds the zeros init_abstract_fs left there: no digest has been written.
C1_FailureLeavesNoSignature ==
    (Returned /\ ret # 0) => absfs.state = ZeroState

C3_BasepathIrrelevant ==
    (pc = "returned" /\ ret = 0 /\ Supported) =>
        \A bp \in Basepaths :
            LET w == ScanRun(InitialAbsfs, bp, order, fault, openssl3)
            IN  ~w.exited /\ w.ret = 0 /\ Hashed(w.absfs) = Hashed(absfs)

\* The entries of an excluded directory and the directory itself.
Excluded(T) ==
    { p \in T : \E d \in T : /\ d # Root
                             /\ d \in exclusion_list
                             /\ (p = d \/ IsBelow(p, d)) }

WithoutExcluded(po) == SelectSeq(po, LAMBDA p : p \notin Excluded(tree))

C5_TraversalFailureStatus ==
    (Returned /\ Supported /\ occurred.kind \in {"nftw", "dnr", "readlink"}) =>
        ret = -occurred.err

\* C6: after open() or read() of a regular file failed while its content was
\* hashed, scan_abstract_fs returns the negated errno of that failure.
C6_ContentFailureStatus ==
    (Returned /\ Supported /\ occurred.kind \in {"open", "read"}) =>
        ret = -occurred.err

\* C7: after the hash engine reported an update failure for a chunk of a
\* regular file, scan_abstract_fs returns a non-zero status.
C7_UpdateFailureStatus ==
    (Returned /\ Supported /\ occurred.kind = "update") => ret # 0

LevelOfAbstract(path) ==
    IF path = root_dir THEN 0
    ELSE Cardinality({ i \in 1..Len(path) : path[i] = "/" })

DepthAbort == pc = "exited" /\ todo # << >>

\* C8: the walk is aborted for depth exactly on reaching an entry at a level
\* above 2: no such entry gets past the callback, the abort leaves
\* absfs->state without a signature, and nothing at level <= 2 aborts.
C8_DepthAbort ==
    /\ \A i \in 1..Len(walker_files) :
           LevelOfAbstract(walker_files[i].abstract_path) <= 2
    /\ \A i \in 1..Len(delivered) :
           LevelOfAbstract(delivered[i].abstract_path) <= 2
    /\ DepthAbort => (Level(Head(todo)) > 2 /\ absfs.state = ZeroState)
    /\ (Returned /\ fault.kind # "nftw") =>
           \A p \in tree : Level(p) > 2 =>
               \/ occurred.kind = "readlink"
               \/ \E q \in tree :
                      /\ IsBelow(p, q)
                      /\ \/ q \in Excluded(tree)
                         \/ (occurred.kind = "dnr" /\ occurred.at = q)

\* The callback met an entry at level 3 and ended the process.
C8_Witness ==
    /\ DepthAbort
    /\ Level(Head(todo)) = 3
    /\ Len(walker_files) >= 3

Contexts == { absfs.xxh_state, absfs.md5_state, absfs.crc32_state }

\* C9: whatever the order of the init / scan / destroy calls, a context has
\* at most one digest taken per initialization, and no update or digest is
\* applied to a context that is finalized, released or was never created.
C9_FinalizedOncePerInit ==
    \A ctx \in Contexts : ctx.nfinal <= 1 /\ ~ctx.misused

\* C10: when the process has ended or the caller has released its
\* accumulator, no heap-allocated hash context is left allocated.
C10_ContextReleasedOnEveryExit ==
    pc \in {"exited", "destroyed"} =>
        /\ absfs.xxh_state.mem # "live"
        /\ absfs.md5_state.mem # "live"

\* The attribute blocks fed to the selected engine, in the order of the feeds.
Blocks(a) == SelectSeq(Selected(a).fed, LAMBDA b : b.block)

\* The entry of the walked tree that a collected record stands for.
EntryOf(file) == SubSeq(file.fullpath, Len(basepath) + 1, Len(file.fullpath))

\* Sizes a file system may report for an entry that is not a regular file.
OtherSizes == {0, 1, 8192}

\* The records files, with size s reported for every non-regular entry.
Resized(files, s) ==
    [i \in 1..Len(files) |->
        IF S_ISREG(files[i].attrs.mode) THEN files[i]
        ELSE [files[i] EXCEPT !.attrs.size = s]]

\* C11: in the attribute block hashed for an entry the size is the reported
\* st_size when the entry is a regular file and 0 otherwise, and the fed
\* buffers and the signature do not change with the sizes reported for the
\* entries that are not regular files.
C11_SizeOfNonRegularZeroed ==
    (pc = "returned" /\ ret = 0 /\ Supported) =>
        /\ Len(Blocks(absfs)) = Len(walker_files)
        /\ \A i \in 1..Len(walker_files) :
               LET inode == Disk[EntryOf(walker_files[i])]
               IN  Blocks(absfs)[i].attrs.size =
                       IF S_ISREG(inode.st_mode) THEN inode.st_size ELSE 0
        /\ \A s \in OtherSizes :
               LET w == FoldAndDigest(Resized(delivered, s), InitialAbsfs,
                                      basepath, fault, openssl3)
               IN  ~w.exited /\ Hashed(w.absfs) = Hashed(absfs)

\* A walk hashed a directory and a symbolic link that report a size other
\* than 0, and a regular file with its size.
C11_Witness ==
    /\ pc = "returned" /\ ret = 0 /\ Supported
    /\ \E i, j, k \in 1..Len(walker_files) :
          /\ S_ISDIR(walker_files[i].attrs.mode) /\ walker_files[i].attrs.size > 0
          /\ S_ISLNK(walker_files[j].attrs.mode) /\ walker_files[j].attrs.size > 0
          /\ S_ISREG(walker_files[k].attrs.mode)
          /\ Blocks(absfs)[k].attrs.size = 5000

\* C12: the link count hashed for an entry is the reported st_nlink minus one
\* when the entry is the root of the basepath and the file system is of the
\* ext4 / ext2 / jffs2 family, and the reported st_nlink in every other case.
C12_LinkCountAdjustedAtExtRoot ==
    (pc = "returned" /\ ret = 0 /\ Supported) =>
        \A i \in 1..Len(walker_files) :
            LET inode == Disk[EntryOf(walker_files[i])]
            IN  Blocks(absfs)[i].attrs.nlink =
                    IF /\ walker_files[i].abstract_path = root_dir
                       /\ fstype \in Range(nlink_fs)
                    THEN inode.st_nlink - 1
                    ELSE inode.st_nlink

\* What the callback makes of link content data when the target buffer holds
\* nothing else: the bytes of data from offset bplen on.
CleanTarget(data, bplen) == CStr(data \o <<NUL>>, bplen)

\* C13: the target recorded (and then hashed) for a symbolic link is a
\* function of the link's own content and of the basepath only, whatever the
\* target buffer held before; for every other entry it is empty.
C13_SymlinkTargetOfOwnLink ==
    \A i \in 1..Len(walker_files) :
        LET p == EntryOf(walker_files[i])
        IN  walker_files[i].target_relpath =
                IF S_ISLNK(Disk[p].st_mode)
                THEN CleanTarget(LinkContent(Disk[p].link, basepath),
                                 Len(basepath))
                ELSE << >>

\* The three buffers FeedHasher feeds for a record before any file content.
Header(file) ==
    << StrBuf(file.abstract_path),
       StrBuf(file.target_relpath),
       AttrsBuf(IF S_ISREG(file.attrs.mode) THEN file.attrs
                ELSE [file.attrs EXCEPT !.size = 0]) >>

\* The first n chunks of the content of entry p, as update buffers.
ChunksUntil(p, n) == [k \in 1..n |-> StrBuf(<< Disk[p].content[k] >>)]

\* The number of chunks read() hands over for entry p before it returns
\* end-of-file or an error (none when open() fails).
ReadsDone(p) ==
    IF fault.at = p /\ fault.kind = "open" THEN 0
    ELSE IF fault.at = p /\ fault.kind = "read" THEN fault.k - 1
    ELSE Len(Disk[p].content)

\* The records walk's loop has folded so far.
Folded ==
    CASE pc = "fold" -> SubSeq(walker_files, 1, idx - 1)
      [] pc \in {"digest", "returned", "destroyed"} /\ ret = 0 -> walker_files
      [] OTHER -> << >>

\* The buffers fed when every record of files is followed by all the chunks
\* read for it.
RECURSIVE EveryChunkFed(_, _)
EveryChunkFed(files, i) ==
    IF i > Len(files) THEN << >>
    ELSE LET p == EntryOf(files[i])
         IN  Header(files[i])
             \o (IF S_ISREG(files[i].attrs.mode)
                 THEN ChunksUntil(p, ReadsDone(p)) ELSE << >>)
             \o EveryChunkFed(files, i + 1)

\* C14: for each of the four hash options, when the engine reports no error
\* every chunk that read() returned for a regular file has been fed, in
\* order, up to end-of-file or the failing read.
C14_EveryChunkHashed ==
    (/\ pc \in {"fold", "digest", "returned"}
     /\ Supported
     /\ ~(fault.kind = "update" /\ absfs.hash_option # crc32_t)) =>
        Selected(absfs).fed = EveryChunkFed(Folded, 1)

\* fed is, for each record of files from the i-th on and in their order, the
\* record's path, its link target and its attribute block, followed by
\* chunks of its content only when it is a regular file: all of them in a
\* run without a failure, the first few of them otherwise.
RECURSIVE InEntryOrder(_, _, _)
InEntryOrder(fed, files, i) ==
    IF i > Len(files) THEN fed = << >>
    ELSE LET p     == EntryOf(files[i])
             most  == IF S_ISREG(files[i].attrs.mode)
                      THEN Len(Disk[p].content) ELSE 0
             least == IF fault = NoFault THEN most ELSE 0
         IN  /\ Len(fed) >= 3
             /\ SubSeq(fed, 1, 3) = Header(files[i])
             /\ \E n \in least..most :
                   /\ Len(fed) >= 3 + n
                   /\ SubSeq(fed, 4, 3 + n) = ChunksUntil(p, n)
                   /\ InEntryOrder(SubSeq(fed, 4 + n, Len(fed)), files, i + 1)

\* C15: the updates of the hash context are, entry after entry in the order
\* of the fold, the abstract path, the link target, the attribute block and
\* then the content if and only if the entry is a regular file; the updates
\* of two entries are never interleaved.
C15_UpdateOrderPerEntry ==
    (pc \in {"fold", "digest", "returned"} /\ Supported) =>
        InEntryOrder(Selected(absfs).fed, Folded, 1)

\* A walk without a failure has folded a regular file of two chunks and a
\* symbolic link with a target, among three entries or more.
C15_Witness ==
    /\ pc = "returned" /\ ret = 0 /\ Supported /\ fault = NoFault
    /\ Len(walker_files) >= 3
    /\ \E i, j \in 1..Len(walker_files) :
          /\ Len(Disk[EntryOf(walker_files[i])].content) = 2
          /\ walker_files[j].target_relpath # << >>

\* ------------------------------------------------- printing a signature

\* The variables of the walker and of its caller.
walker == << env, pc, absfs, glob, todo, idx, ret, errno, hist >>

\* A walker that makes no call.
WalkerIdle ==
    /\ tree = {Root}
    /\ order = << Root >>
    /\ basepath = <<"/","e","x","t","4">>
    /\ fstype = <<"e","x","t","4">>
    /\ fault = NoFault
    /\ openssl3 = TRUE
    /\ absfs = NewAbsfs(xxh128_t, "zero")
    /\ WalkerAtStart

\* The number of bytes of absfs->state that print_abstract_fs_state prints.
absfs_state_len == 16

\* sizeof(absfs->crc32_state): a 32-bit checksum.
sizeof_crc32_state == 4

\* The number of bytes scan_abstract_fs copies into absfs->state:
\* sizeof(XXH128_hash_t), sizeof(XXH64_hash_t), the MD5 digest length and
\* sizeof(absfs->crc32_state).
DigestLen(opt) ==
    CASE opt = xxh128_t -> 16
      [] opt = xxh3_t   -> 8
      [] opt = md5_t    -> 16
      [] opt = crc32_t  -> sizeof_crc32_state

\* Byte k of the n-th sample digest: all 0x00, all 0xff, all 0x0a, mixed.
SampleByte(n, k) ==
    CASE n = 1 -> 0
      [] n = 2 -> 255
      [] n = 3 -> 10
      [] OTHER -> (k * 29 + 3) % 256

\* absfs->state as init_abstract_fs and scan_abstract_fs leave it for option
\* opt: the bytes of a digest, then the zeros of the memset.
SignatureBytes(opt, n) ==
    [k \in 1..absfs_state_len |->
        IF k <= DigestLen(opt) THEN SampleByte(n, k) ELSE 0]

HexDigits ==
    << "0", "1", "2", "3", "4", "5", "6", "7", "8", "9",
       "a", "b", "c", "d", "e", "f" >>

\* A conversion "%x": no leading zero.
Hex2_unpadded(b) ==
    IF b < 16 THEN << HexDigits[b + 1] >>
    ELSE << HexDigits[(b \div 16) + 1], HexDigits[(b % 16) + 1] >>

\* printf's conversion "%02x" of a value below 256.
Hex2(b) == << HexDigits[(b \div 16) + 1], HexDigits[(b % 16) + 1] >>

\* One iteration of the loop: printer("%02x", hash[i] & 0xff).
print_abstract_fs_state(p) ==
    [p EXCEPT !.out = @ \o Hex2(p.hash[p.i + 1] % 256), !.i = @ + 1]

PrintByte ==
    /\ prn.i < absfs_state_len
    /\ prn' = print_abstract_fs_state(prn)
    /\ UNCHANGED << walker, peer, sys, chk, mnt, rep >>

InitPrint ==
    /\ WalkerIdle
    /\ peer = NoPeer
    /\ sys = NoSys
    /\ mnt = NoMnt
    /\ rep = NoRep
    /\ chk = NoChk
    /\ \E opt \in {xxh128_t, xxh3_t, md5_t, crc32_t}, n \in 1..4 :
          prn = [hash_option |-> opt, hash |-> SignatureBytes(opt, n),
                 i |-> 0, out |-> << >>]

NextPrint == PrintByte

SpecPrint == InitPrint /\ [][NextPrint]_vars

Printed == prn.i = absfs_state_len

\* The value of a hexadecimal digit.
HexVal(c) == (CHOOSE n \in 1..16 : HexDigits[n] = c) - 1

\* C16 as stated: the printed form of a signature has two hexadecimal
\* characters for each byte of the digest of its algorithm: 32 for xxh128
\* and md5, 16 for xxh3, 8 for crc32.
C16_PrintedWidthPerAlgorithm ==
    Printed => Len(prn.out) = 2 * DigestLen(prn.hash_option)

\* C16 amended: for every algorithm the printed form is 32 lowercase
\* hexadecimal characters, two for each of the 16 bytes of absfs->state in
\* array order; the bytes after the digest print as 00.
C16_PrintedWidthFixed ==
    Printed =>
        /\ Len(prn.out) = 32
        /\ \A k \in 1..16 :
              /\ prn.out[2 * k - 1] \in Range(HexDigits)
              /\ prn.out[2 * k] \in Range(HexDigits)
              /\ 16 * HexVal(prn.out[2 * k - 1]) + HexVal(prn.out[2 * k])
                     = prn.hash[k]
              /\ k > DigestLen(prn.hash_option) =>
                     (prn.out[2 * k - 1] = "0" /\ prn.out[2 * k] = "0")

\* A 64-bit signature with bytes below 0x10 has been printed.
C16_Witness ==
    /\ Printed
    /\ prn.hash_option = xxh3_t
    /\ prn.hash[1] = 10

\* ------------------------------------------------- two concurrent walks

\* A second thread calls scan_abstract_fs on its own absfs_t for another
\* file-system instance.  Its arguments and locals are its own (peer); the
\* statics walker_basepath, basepath_len, walker_files and target are the
\* one copy of the process.  A step is one call of the nftw callback or one
\* iteration of walk's loop.

PeerScan ==
    /\ peer.pc = "inited"
    /\ walker_basepath' = peer.basepath
    /\ basepath_len' = Len(peer.basepath)
    /\ walker_files' = << >>
    /\ peer' = [peer EXCEPT !.pc = "nftw", !.todo = peer.order]
    /\ UNCHANGED << env, pc, absfs, target, todo, idx, ret, errno, hist,
                    prn, sys, chk, mnt, rep >>

PeerNftwStep ==
    nftw_step(peer.todo, peer.basepath, NoFault, basepath_len, walker_files,
              target, peer.errno)

PeerCallback ==
    /\ peer.pc = "nftw"
    /\ LET s == PeerNftwStep IN
         /\ ~s.done /\ ~s.exited
         /\ walker_files' = s.walker_files
         /\ target' = s.target
         /\ peer' = [peer EXCEPT !.todo = s.todo, !.errno = s.errno]
    /\ UNCHANGED << env, pc, absfs, walker_basepath, basepath_len, todo, idx,
                    ret, errno, hist, prn, sys, chk, mnt, rep >>

PeerNftwReturn ==
    /\ peer.pc = "nftw"
    /\ LET s == PeerNftwStep
           r == do_walk_result(s.res, s.errno)
       IN /\ s.done /\ ~s.exited
          /\ target' = s.target
          /\ IF r < 0
             THEN /\ walker_files' = s.walker_files
                  /\ peer' = [peer EXCEPT !.pc = "digest", !.ret = r,
                                          !.todo = << >>, !.errno = s.errno]
             ELSE /\ walker_files' = Sort(s.walker_files)
                  /\ peer' = [peer EXCEPT !.pc = "fold", !.idx = 1,
                                          !.todo = << >>, !.errno = s.errno]
    /\ UNCHANGED << env, pc, absfs, walker_basepath, basepath_len, todo, idx,
                    ret, errno, hist, prn, sys, chk, mnt, rep >>

PeerFeedEntry ==
    /\ peer.pc = "fold"
    /\ peer.idx <= Len(walker_files)
    /\ LET r == FeedHasher(walker_files[peer.idx], peer.absfs,
                           FileIO(walker_files[peer.idx].fullpath,
                                  peer.basepath, NoFault),
                           peer.errno)
       IN /\ walker_files' = [walker_files EXCEPT ![peer.idx] = r.file]
          /\ peer' = [peer EXCEPT !.absfs = r.absfs, !.errno = r.errno,
                                  !.idx = @ + 1]
    /\ UNCHANGED << env, pc, absfs, walker_basepath, basepath_len, target,
                    todo, idx, ret, errno, hist, prn, sys, chk, mnt, rep >>

PeerWalkReturn ==
    /\ peer.pc = "fold"
    /\ peer.idx > Len(walker_files)
    /\ peer' = [peer EXCEPT !.pc = "digest", !.ret = 0]
    /\ UNCHANGED << walker, prn, sys, chk, mnt, rep >>

PeerScanReturn ==
    /\ peer.pc = "digest"
    /\ LET f == Finalize(peer.absfs, peer.ret, openssl3)
       IN  peer' = [peer EXCEPT !.pc = "returned", !.absfs = f.absfs,
                                !.ret = f.ret]
    /\ UNCHANGED << walker, prn, sys, chk, mnt, rep >>

\* Both threads are between do_walk's first line and the end of walk's loop:
\* their unsynchronized accesses to the vector and the buffer are a data
\* race, and besides the interleavings above the process may end there.
DataRaceCrash ==
    /\ pc \in {"nftw", "fold"}
    /\ peer.pc \in {"nftw", "fold"}
    /\ pc' = "crashed"
    /\ peer' = [peer EXCEPT !.pc = "crashed"]
    /\ UNCHANGED << env, absfs, glob, todo, idx, ret, errno, hist,
                    prn, sys, chk, mnt, rep >>

\* The trees of the two instances.
ParTrees == { {Root, <<"/","f">>}, {Root, <<"/","l">>} }

PeerAtStart(bp, po) ==
    [ pc |-> "inited", basepath |-> bp, order |-> po,
      absfs |-> init_abstract_fs(NewAbsfs(xxh128_t, "zero"), TRUE),
      todo |-> << >>, idx |-> 0, ret |-> 0, errno |-> 0 ]

InitPar ==
    /\ tree \in ParTrees
    /\ order \in Preorders(tree, Root)
    /\ basepath = <<"/","e","x","t","4">>
    /\ fstype = <<"e","x","t","4">>
    /\ fault = NoFault
    /\ openssl3 = TRUE
    /\ absfs = NewAbsfs(xxh128_t, "zero")
    /\ WalkerAtStart
    /\ \E T \in ParTrees : \E po \in Preorders(T, Root) :
          peer = PeerAtStart(<<"/","x","f","s">>, po)
    /\ prn = NoPrint
    /\ sys = NoSys
    /\ mnt = NoMnt
    /\ rep = NoRep
    /\ chk = NoChk

NextPar ==
    \/ InitAbstractFs
    \/ ScanAbstractFs
    \/ NftwCallback
    \/ NftwReturn
    \/ FeedEntry
    \/ WalkReturn
    \/ ScanReturn
    \/ PeerScan
    \/ PeerCallback
    \/ PeerNftwReturn
    \/ PeerFeedEntry
    \/ PeerWalkReturn
    \/ PeerScanReturn
    \/ DataRaceCrash

SpecPar == InitPar /\ [][NextPar]_vars

\* The walk of the second thread when it runs alone.
PeerAlone ==
    ScanRun(PeerAtStart(peer.basepath, peer.order).absfs, peer.basepath,
            peer.order, NoFault, openssl3)

\* C17: with two walks of two file-system instances running in two
\* threads, under every interleaving the entry list and the basepath length
\* a walk works with hold that walk's data only, and each walk returns the
\* status and the signature it returns when it runs alone.
C17_ConcurrentWalksIndependent ==
    /\ pc \in {"nftw", "fold"} =>
          /\ basepath_len = Len(basepath)
          /\ \A i \in 1..Len(walker_files) :
                StartsWith(walker_files[i].fullpath, basepath)
    /\ pc = "returned" =>
          LET w == ScanRun(InitialAbsfs, basepath, order, NoFault, openssl3)
          IN  ret = w.ret /\ Hashed(absfs) = Hashed(w.absfs)
    /\ peer.pc = "returned" =>
          (peer.ret = PeerAlone.ret /\ Hashed(peer.absfs) = Hashed(PeerAlone.absfs))

\* --------------------------------------------------- syscall retry layer

\* AbstractFile::Open, Read, Lstat, Opendir, Readdir and Closedir are each
\* DEFINE_SYSCALL_WITH_RETRY(type, func, args...): the call is made, and made
\* again with the same arguments while it fails with a transient error, up
\* to RETRY_LIMIT more times, with a retry_warning before each retry.

RETRY_LIMIT == 3

Wrapped == {"open", "read", "lstat", "opendir", "readdir", "closedir"}

\* The arguments the wrapper hands to func.
ArgsOf(func) ==
    CASE func = "open"     -> << "fullpath", "flag" >>
      [] func = "read"     -> << "fd", "buf", "count" >>
      [] func = "lstat"    -> << "fullpath", "statbuf" >>
      [] func = "opendir"  -> << "fullpath" >>
      [] func = "readdir"  -> << "dirp" >>
      [] func = "closedir" -> << "dirp" >>

\* errno values the layer takes for transient, and one it does not.
Transient == {"EINTR", "EAGAIN"}
Errnos    == Transient \cup {"ENOENT"}

\* A wrapper that retries a transient error however often it has retried.
should_retry_unbounded(err, retry_count) == err \in Transient

should_retry(err, retry_count) ==
    err \in Transient /\ retry_count < RETRY_LIMIT

\* The message of AbstractFile::retry_warning.
retry_warning(funcname, cond, retry_count) ==
    [ funcname |-> funcname, count |-> retry_count, cond |-> cond,
      ordinal  |-> CASE retry_count % 10 = 1 -> "st"
                     [] retry_count % 10 = 2 -> "nd"
                     [] retry_count % 10 = 3 -> "rd"
                     [] OTHER -> "th" ]

\* A wrapper entered for func on a file of the given type.
SysAtEntry(func, isdir) ==
    [ pc |-> "entered", func |-> func, isdir |-> isdir,
      retry_count |-> 0,
      made   |-> << >>,      \* the arguments of every call of func so far
      errs   |-> << >>,      \* the errno of every failed call so far
      warned |-> << >>,      \* the retry warnings printed
      retval |-> "none" ]

\* Opendir on a record that is not a directory returns nullptr at once.
SysNotADirectory ==
    /\ sys.pc = "entered"
    /\ sys.func = "opendir" /\ ~sys.isdir
    /\ sys' = [sys EXCEPT !.pc = "returned", !.retval = "nullptr"]
    /\ UNCHANGED << walker, prn, peer, chk, mnt, rep >>

SysCallable ==
    /\ sys.pc = "entered"
    /\ ~(sys.func = "opendir" /\ ~sys.isdir)

\* func(args) succeeds and the wrapper returns its value.
SysSucceeds ==
    /\ SysCallable
    /\ sys' = [sys EXCEPT !.pc = "returned", !.retval = "ok",
                          !.made = Append(@, ArgsOf(sys.func))]
    /\ UNCHANGED << walker, prn, peer, chk, mnt, rep >>

\* func(args) fails and the wrapper goes round again.
SysRetries ==
    /\ SysCallable
    /\ \E err \in Errnos :
          /\ should_retry(err, sys.retry_count)
          /\ sys' = [sys EXCEPT
                !.made = Append(@, ArgsOf(sys.func)),
                !.errs = Append(@, err),
                !.retry_count = @ + 1,
                !.warned = Append(@, retry_warning(sys.func, err,
                                                   sys.retry_count + 1))]
    /\ UNCHANGED << walker, prn, peer, chk, mnt, rep >>

\* func(args) fails and the wrapper returns the failure.
SysFails ==
    /\ SysCallable
    /\ \E err \in Errnos :
          /\ ~should_retry(err, sys.retry_count)
          /\ sys' = [sys EXCEPT
                !.pc = "returned", !.retval = "failed",
                !.made = Append(@, ArgsOf(sys.func)),
                !.errs = Append(@, err)]
    /\ UNCHANGED << walker, prn, peer, chk, mnt, rep >>

InitRetry ==
    /\ WalkerIdle
    /\ prn = NoPrint
    /\ peer = NoPeer
    /\ chk = NoChk
    /\ mnt = NoMnt
    /\ rep = NoRep
    /\ \E func \in Wrapped, isdir \in BOOLEAN : sys = SysAtEntry(func, isdir)

NextRetry ==
    \/ SysNotADirectory
    \/ SysSucceeds
    \/ SysRetries
    \/ SysFails

SpecRetry == InitRetry /\ [][NextRetry]_vars

\* C18: a wrapped system call is made again only after a transient error,
\* always with the arguments of the first call, and at most RETRY_LIMIT
\* times more; when the last allowed call has failed the wrapper has
\* returned, whatever the error.
C18_RetryBounded ==
    /\ Len(sys.made) <= RETRY_LIMIT + 1
    /\ \A k \in 1..Len(sys.made) : sys.made[k] = ArgsOf(sys.func)
    /\ \A k \in 1..(Len(sys.made) - 1) : sys.errs[k] \in Transient
    /\ sys.pc = "entered" => Len(sys.errs) = Len(sys.made)
    /\ (Len(sys.made) = RETRY_LIMIT + 1) => sys.pc = "returned"

\* A transient error that never cleared: the wrapper made every allowed call
\* and returned the failure.
C18_Witness ==
    /\ sys.pc = "returned"
    /\ sys.retval = "failed"
    /\ Len(sys.made) = RETRY_LIMIT + 1
    /\ sys.errs[Len(sys.errs)] \in Transient

\* The prefix of the names of NFS temporary files, as an abstract path.
NfsTempPrefix == << "/", ".", "n", "f", "s" >>

\* C19: no record is collected for an entry whose abstract path begins with
\* "/.nfs", and nothing of such an entry is fed to the hash engine.
C19_NfsTempFilesSkipped ==
    /\ \A i \in 1..Len(walker_files) :
          ~StartsWith(walker_files[i].abstract_path, NfsTempPrefix)
    /\ \A k \in 1..Len(Selected(absfs).fed) :
          ~StartsWith(Selected(absfs).fed[k].str, NfsTempPrefix)

\* ------------------------------------------------------- validity checker

\* round_up(n, b): the least multiple of b that is not below n.
round_up(n, b) == ((n + b - 1) \div b) * b

\* (size_t)(a - b) > c, for a, b, c below 2^31: the difference of two
\* size_t values is taken modulo 2^64, so that a < b gives 2^64 - (b - a),
\* which is above every such c.
size_t_diff_gt(a, b, c) == IF a >= b THEN a - b > c ELSE TRUE

\* AbstractFile::CheckValidity on a record: the four tests and the result.
CheckValidity(file) ==
    LET rounded_fsize == round_up(file.attrs.size, file.xattrs.blksize)
        allocated     == file.xattrs.blksize * file.xattrs.blocks
        flags ==
          [ not_reg_or_dir |->
                ~(S_ISREG(file.attrs.mode) /= S_ISDIR(file.attrs.mode)),
            too_big        |-> file.attrs.size > 1048576,
            too_many_links |-> file.attrs.nlink > 5,
            misallocated   |-> size_t_diff_gt(allocated, rounded_fsize, 4096) ]
    IN  [ flags |-> flags,
          res   |-> /\ ~flags.not_reg_or_dir /\ ~flags.too_big
                    /\ ~flags.too_many_links /\ ~flags.misallocated ]

\* The records checked: their types, sizes, link counts and allocations.
CheckedFiles ==
    { [ attrs  |-> [ mode |-> [fmt |-> fmt, perm |-> "644"], size |-> size,
                     nlink |-> nlink, uid |-> 0, gid |-> 0 ],
        xattrs |-> [ blksize |-> 4096, blocks |-> blocks ] ] :
        fmt \in {"S_IFREG", "S_IFDIR", "S_IFLNK"},
        size \in {0, 1, 4096, 5000, 1048577},
        nlink \in {1, 6},
        blocks \in 0..4 }

CallCheckValidity ==
    /\ chk.pc = "entered"
    /\ chk' = [ pc |-> "returned", file |-> chk.file,
                out |-> CheckValidity(chk.file) ]
    /\ UNCHANGED << walker, prn, peer, sys, mnt, rep >>

NoVerdict ==
    [ flags |-> [ not_reg_or_dir |-> FALSE, too_big |-> FALSE,
                  too_many_links |-> FALSE, misallocated |-> FALSE ],
      res |-> TRUE ]

InitValidity ==
    /\ WalkerIdle
    /\ prn = NoPrint
    /\ peer = NoPeer
    /\ sys = NoSys
    /\ mnt = NoMnt
    /\ rep = NoRep
    /\ \E file \in CheckedFiles :
          chk = [pc |-> "entered", file |-> file, out |-> NoVerdict]

NextValidity == CallCheckValidity

SpecValidity == InitValidity /\ [][NextValidity]_vars

\* The distance between the bytes allocated to a record and its size
\* rounded up to the block size.
AllocationGap(file) ==
    LET rounded   == round_up(file.attrs.size, file.xattrs.blksize)
        allocated == file.xattrs.blksize * file.xattrs.blocks
    IN  IF allocated >= rounded THEN allocated - rounded
        ELSE rounded - allocated

\* C20: CheckValidity flags the allocation of a record exactly when the
\* allocated bytes and the size rounded up to the block size differ by more
\* than 4096, in either direction.
C20_AllocationTolerance ==
    chk.pc = "returned" =>
        (chk.out.flags.misallocated <=> AllocationGap(chk.file) > 4096)

\* ------------------------------------------------- the record after a fold

\* C21: FeedHasher leaves the entry record as it found it.  While walk folds
\* the sorted list and after it, every record, the ones already fed included,
\* is the record the callback collected: the size is the st_size the file
\* system reported (also for an entry that is not a regular file, whose size
\* was zeroed in the hashed block), and mode, nlink, uid, gid and the paths
\* are unchanged.
C21_FeedHasherRestoresRecord ==
    (pc \in {"fold", "digest", "returned"} /\ ret = 0) =>
        /\ walker_files = Sort(delivered)
        /\ \A i \in 1..Len(walker_files) :
               walker_files[i].attrs.size =
                   Disk[EntryOf(walker_files[i])].st_size

\* A walk returned after FeedHasher fed a directory and a symbolic link whose
\* reported size is not 0: the hashed block has size 0, the record has not.
C21_Witness ==
    /\ pc = "returned" /\ ret = 0 /\ Supported
    /\ Len(Blocks(absfs)) = Len(walker_files)
    /\ \E i, j \in 1..Len(walker_files) :
          /\ S_ISDIR(walker_files[i].attrs.mode)
          /\ walker_files[i].attrs.size > 0 /\ Blocks(absfs)[i].attrs.size = 0
          /\ S_ISLNK(walker_files[j].attrs.mode)
          /\ walker_files[j].attrs.size > 0 /\ Blocks(absfs)[j].attrs.size = 0

\* ------------------------------------------- one algorithm from init to digest

\* The update function that FeedHasher and hash_file_content apply for
\* hash_option opt (the two switches name the same functions).
update_variant(opt) ==
    CASE opt = xxh128_t -> "XXH3_128bits"
      [] opt = xxh3_t   -> "XXH3_64bits"
      [] opt = md5_t    -> "md5"
      [] opt = crc32_t  -> "crc32"
      [] OTHER          -> "none"

\* The digest function of scan_abstract_fs for hash_option opt; for crc32_t
\* it copies the running checksum crc32_state.
digest_variant(opt) ==
    CASE opt = xxh128_t -> "XXH3_128bits"
      [] opt = xxh3_t   -> "XXH3_64bits"
      [] opt = md5_t    -> "md5"
      [] opt = crc32_t  -> "crc32"
      [] OTHER          -> "none"

\* The start that belongs to an algorithm: its own reset function, and the
\* start value zero for the running checksum.
reset_of(variant) == IF variant = "crc32" THEN "zero" ELSE variant

\* C24: for every supported hash option, once init_abstract_fs has run, the
\* context that the updates go to and the digest is taken from was started
\* by the reset of that same algorithm (for crc32_t: the running checksum
\* that is read at the end is the one that was zeroed), and the updates
\* and the digest are of one algorithm.
C24_SameVariantThroughout ==
    (pc # "start" /\ Supported) =>
        /\ update_variant(absfs.hash_option) = digest_variant(absfs.hash_option)
        /\ Selected(absfs).reset = reset_of(update_variant(absfs.hash_option))

\* --------------------------------------------------------- successive walks

\* A caller that walks again without emptying the list first.
WalkAgain_without_clear ==
    /\ AtRest /\ pc # "start"
    /\ ncalls < MaxCalls
    /\ basepath' \in Basepaths
    /\ fault' \in {fault, NoFault}
    /\ walker_basepath' = basepath'
    /\ basepath_len' = Len(basepath')
    /\ walker_files' = walker_files
    /\ todo' = order
    /\ visited' = << >>
    /\ pc' = "nftw"
    /\ ncalls' = ncalls + 1
    /\ UNCHANGED << tree, order, fstype, openssl3, aside, absfs, target, idx,
                    ret, errno, occurred, delivered >>

\* scan_abstract_fs(&absfs, bp, ...) as one of several walks of a process:
\* of any mount point, and an operation that failed in an earlier walk may
\* have recovered.  do_walk sets the walker's globals and empties the list.
WalkAgain ==
    /\ AtRest /\ pc # "start"
    /\ ncalls < MaxCalls
    /\ basepath' \in Basepaths
    /\ fault' \in {fault, NoFault}
    /\ walker_basepath' = basepath'
    /\ basepath_len' = Len(basepath')
    /\ walker_files' = << >>
    /\ todo' = order
    /\ visited' = << >>
    /\ pc' = "nftw"
    /\ ncalls' = ncalls + 1
    /\ UNCHANGED << tree, order, fstype, openssl3, aside, absfs, target, idx,
                    ret, errno, occurred, delivered >>

InitWalks == Init /\ tree \in ApiTrees

NextWalks ==
    \/ AnyInit
    \/ WalkAgain
    \/ AnyDestroy
    \/ NftwCallback
    \/ NftwDepthExit
    \/ NftwReturn
    \/ FeedEntry
    \/ WalkReturn
    \/ ScanReturn
    \/ UndefinedUseCrash

SpecWalks == InitWalks /\ [][NextWalks]_vars

\* The full paths of the records of the list.
Recorded == { walker_files[i].fullpath : i \in 1..Len(walker_files) }

\* No two records of the list are for one entry, and every record is for an
\* entry that the callback was called for in this walk.
NothingLeftOver ==
    /\ \A i, j \in 1..Len(walker_files) :
           i # j => walker_files[i].fullpath # walker_files[j].fullpath
    /\ Recorded \subseteq { walker_basepath \o p : p \in Range(visited) }

\* Every entry outside the excluded directories that the callback was called
\* for in this walk has a record.
EveryVisitedRecorded ==
    { walker_basepath \o p : p \in Range(visited) \ Excluded(tree) }
        \subseteq Recorded

\* C25: in any sequence of walks of one process, the list that a walk folds
\* holds exactly one record for each non-excluded entry visited in that walk
\* and no record of an earlier walk, whether that walk failed or not.
C25_ListIsThisWalksEntries ==
    pc = "fold" => NothingLeftOver /\ EveryVisitedRecorded

\* A later walk folds its list after an earlier walk had collected records.
WalkedBefore ==
    /\ pc = "fold" /\ ncalls = MaxCalls
    /\ delivered # << >> /\ Len(walker_files) >= 2

\* The part of C25 about earlier walks, taken alone.
C25_NoRecordOfEarlierWalk == pc = "fold" => NothingLeftOver

\* ------------------------------------------------ mount.c: unmount with retry

\* The other components while a unit of mount.c runs alone.
AsideOfMount ==
    /\ WalkerIdle
    /\ prn = NoPrint
    /\ peer = NoPeer
    /\ sys = NoSys
    /\ chk = NoChk
    /\ rep = NoRep

\* int retry_limit = 19;
retry_limit == 19

\* errno values of a failed umount2.
UmountErrnos == {"EBUSY", "EINVAL", "EPERM"}

\* The two mount points unmount_all hands to unmount_with_retry.
UmountPaths == {"NFS_EXPORT_PATH", "basepath"}

\* An unmount that goes round again after any failure.
busy_on_any_error(err) == TRUE

\* The test errno == EBUSY.
busy(err) == err = "EBUSY"

\* 1 << n
RECURSIVE shl1(_)
shl1(n) == IF n = 0 THEN 1 ELSE 2 * shl1(n - 1)

\* useconds_t waitms = 100 * (1 << num_retries)
waitms(num_retries) == 100 * shl1(num_retries)

\* The product 1000 * w of a 32-bit unsigned w, in 16-bit digits lo, hi and
\* top: useconds_t arithmetic keeps lo and hi and drops top.
times_1000(w) ==
    LET p0 == 1000 * (w % 65536)
        p1 == 1000 * (w \div 65536) + (p0 \div 65536)
    IN  [lo |-> p0 % 65536, hi |-> p1 % 65536, top |-> p1 \div 65536]

\* The argument usleep receives for 1000 * waitms.
usleep_arg(w) == [lo |-> times_1000(w).lo, hi |-> times_1000(w).hi]

\* unmount_with_retry(fsname, basepath) at its entry.  attempts, errs and
\* slept are the umount2 calls made, the errno of each failed one and the
\* argument of each usleep; retval is has_failure at the return.
UmountAtEntry(mountpoint) ==
    [ pc |-> "loop", basepath |-> mountpoint,
      ret |-> -1, retry_limit |-> retry_limit, num_retries |-> 0,
      has_failure |-> FALSE,
      attempts |-> 0, errs |-> << >>, slept |-> << >>,
      mounted |-> TRUE, retval |-> FALSE ]

\* umount2 returns 0: break, and return has_failure.
UmountSucceeds ==
    /\ mnt.pc = "loop" /\ mnt.retry_limit > 0
    /\ mnt' = [mnt EXCEPT !.ret = 0, !.attempts = @ + 1, !.mounted = FALSE,
                          !.pc = "returned", !.retval = mnt.has_failure]
    /\ UNCHANGED << walker, prn, peer, sys, chk, rep >>

\* umount2 fails with EBUSY: sleep, count the retry, and fail when the limit
\* is used up.
UmountBusy ==
    /\ mnt.pc = "loop" /\ mnt.retry_limit > 0
    /\ \E err \in UmountErrnos :
          /\ busy(err)
          /\ LET left == mnt.retry_limit - 1
                 fail == IF left = 0 THEN TRUE ELSE mnt.has_failure
             IN  mnt' = [mnt EXCEPT
                    !.ret = -1, !.attempts = @ + 1,
                    !.errs = Append(@, err),
                    !.slept = Append(@, usleep_arg(waitms(mnt.num_retries))),
                    !.num_retries = @ + 1,
                    !.retry_limit = left,
                    !.has_failure = fail,
                    !.pc = IF left > 0 THEN "loop" ELSE "returned",
                    !.retval = fail]
    /\ UNCHANGED << walker, prn, peer, sys, chk, rep >>

\* umount2 fails with another error: fail at once.
UmountFails ==
    /\ mnt.pc = "loop" /\ mnt.retry_limit > 0
    /\ \E err \in UmountErrnos :
          /\ ~busy(err)
          /\ mnt' = [mnt EXCEPT
                !.ret = -1, !.attempts = @ + 1,
                !.errs = Append(@, err),
                !.has_failure = TRUE,
                !.pc = "returned", !.retval = TRUE]
    /\ UNCHANGED << walker, prn, peer, sys, chk, rep >>

InitUnmount ==
    /\ AsideOfMount
    /\ \E bp \in UmountPaths : mnt = UmountAtEntry(bp)

NextUnmount ==
    \/ UmountSucceeds
    \/ UmountBusy
    \/ UmountFails

\* umount2 and usleep return, so an iteration that can be made is made.
SpecUnmount == InitUnmount /\ [][NextUnmount]_vars /\ WF_vars(NextUnmount)

\* What C22 says of every state of unmount_with_retry: at most 19 umount2
\* calls; every failure that was followed by another call was EBUSY; an
\* error other than EBUSY is the last call and returns failure; and the
\* value returned is true exactly when no call succeeded.
UnmountBounded ==
    /\ mnt.attempts <= 19
    /\ \A i \in 1..Len(mnt.errs) :
           i < mnt.attempts => mnt.errs[i] = "EBUSY"
    /\ \A i \in 1..Len(mnt.errs) :
           mnt.errs[i] # "EBUSY" =>
               /\ i = mnt.attempts
               /\ mnt.pc = "returned" /\ mnt.retval
    /\ mnt.pc = "returned" => (mnt.retval <=> mnt.mounted)

\* C22: unmount_with_retry always returns; it calls umount2 at most 19
\* times, again only after EBUSY, ends at once with failure on any other
\* error, and returns true exactly when no call succeeded.
C22_UnmountTerminates == []UnmountBounded /\ <>(mnt.pc = "returned")

\* unmount_with_retry gave up after 19 busy attempts.
C22_Witness ==
    /\ mnt.pc = "returned" /\ mnt.retval /\ mnt.mounted
    /\ mnt.attempts = 19 /\ Len(mnt.slept) = 19

\* Twice the number with the 16-bit digits d, exactly.
Doubled(d) ==
    LET l == 2 * d.lo
        h == 2 * d.hi + (l \div 65536)
    IN  [lo |-> l % 65536, hi |-> h % 65536, top |-> 2 * d.top + (h \div 65536)]

\* 100 * 2^n milliseconds in microseconds, exactly, in 16-bit digits.
RECURSIVE BackoffMicros(_)
BackoffMicros(n) ==
    IF n = 0 THEN [lo |-> 100000 % 65536, hi |-> 100000 \div 65536, top |-> 0]
    ELSE Doubled(BackoffMicros(n - 1))

\* C23: the sleep before the retry that follows the n-th EBUSY failure
\* (n = 0..18) is 100 * 2^n milliseconds: the microsecond argument of
\* usleep is that time exactly, with nothing lost above 32 bits.
C23_BackoffDoublesWithoutWrap ==
    \A n \in 0..(Len(mnt.slept) - 1) :
        /\ BackoffMicros(n).top = 0
        /\ mnt.slept[n + 1] = [lo |-> BackoffMicros(n).lo,
                               hi |-> BackoffMicros(n).hi]

\* Up to the sixteenth retry the sleeps are the claimed ones.
SleepsExactBelow16 ==
    \A n \in 0..(Len(mnt.slept) - 1) :
        n < 16 => /\ BackoffMicros(n).top = 0
                  /\ mnt.slept[n + 1] = [lo |-> BackoffMicros(n).lo,
                                         hi |-> BackoffMicros(n).hi]

\* ------------------------------------------------------- mount.c: mountall

MaxFs == 3

\* The kinds of file system that mountall tells apart (is_verifs, is_nova,
\* is_nfs_ganesha_ext4, is_nfs_ext4, and every other one).
FsKinds == {"verifs", "nova", "nfs_ganesha_ext4", "nfs_ext4", "other"}

\* The lists of file systems under test, get_fslist().
FsLists == UNION { [1..n -> FsKinds] : n \in 1..MaxFs }

\* The mount point of the server export path of a kind of file system.
ExportPath(kind) ==
    IF kind = "nfs_ganesha_ext4" THEN "NFS_GANESHA_EXPORT_PATH"
    ELSE "NFS_EXPORT_PATH"

\* The steps of one iteration of mountall that can fail, in their order.
MountSteps(kind) ==
    CASE kind = "verifs" -> << >>
      [] kind \in {"nfs_ganesha_ext4", "nfs_ext4"} ->
            << "export_mount", "server", "client_mount" >>
      [] OTHER -> << "mount" >>

\* The mounts that the first n steps of the iteration for file system i
\* establish; a mount is the pair of its mount point and the file system.
MountsOf(kind, i, n) ==
    { m \in { << ExportPath(kind), i >>, << "basepath", i >> } :
        \/ m[1] = "basepath" /\ n >= Len(MountSteps(kind)) /\ kind # "verifs"
        \/ m[1] # "basepath" /\ n >= 1
                             /\ kind \in {"nfs_ganesha_ext4", "nfs_ext4"} }

\* mountall() at its entry: nothing is mounted.  i and failpos count from 1.
MountallAtEntry(fslist) ==
    [ pc |-> "mounting", fslist |-> fslist, i |-> 1, failpos |-> 0,
      mounts |-> {} ]

\* One iteration of the for loop in which every step succeeds (or the file
\* system is VeriFS and is skipped).
MountOne ==
    /\ mnt.pc = "mounting" /\ mnt.i <= Len(mnt.fslist)
    /\ LET kind == mnt.fslist[mnt.i] IN
         mnt' = [mnt EXCEPT
             !.mounts = @ \cup MountsOf(kind, mnt.i, Len(MountSteps(kind))),
             !.i = @ + 1]
    /\ UNCHANGED << walker, prn, peer, sys, chk, rep >>

\* One iteration in which step number s fails: failpos = i; goto err.
MountFailsAt ==
    /\ mnt.pc = "mounting" /\ mnt.i <= Len(mnt.fslist)
    /\ LET kind == mnt.fslist[mnt.i] IN
         \E s \in 1..Len(MountSteps(kind)) :
            mnt' = [mnt EXCEPT
                !.mounts = @ \cup MountsOf(kind, mnt.i, s - 1),
                !.failpos = mnt.i,
                !.i = 1,
                !.pc = "undo"]
    /\ UNCHANGED << walker, prn, peer, sys, chk, rep >>

\* Every file system is mounted: return.
MountallReturn ==
    /\ mnt.pc = "mounting" /\ mnt.i > Len(mnt.fslist)
    /\ mnt' = [mnt EXCEPT !.pc = "returned"]
    /\ UNCHANGED << walker, prn, peer, sys, chk, rep >>

\* One iteration of the undo loop: umount2(basepath i, MNT_FORCE) unless the
\* file system is VeriFS.  Its result is not looked at; it may fail.
UndoOne ==
    /\ mnt.pc = "undo" /\ mnt.i < mnt.failpos
    /\ \E ok \in BOOLEAN :
          mnt' = [mnt EXCEPT
              !.mounts = IF mnt.fslist[mnt.i] # "verifs" /\ ok
                         THEN @ \ { << "basepath", mnt.i >> } ELSE @,
              !.i = @ + 1]
    /\ UNCHANGED << walker, prn, peer, sys, chk, rep >>

\* The undo loop is over: exit(1).
MountallExit ==
    /\ mnt.pc = "undo" /\ mnt.i >= mnt.failpos
    /\ mnt' = [mnt EXCEPT !.pc = "exited"]
    /\ UNCHANGED << walker, prn, peer, sys, chk, rep >>

InitMountall ==
    /\ AsideOfMount
    /\ \E fslist \in FsLists : mnt = MountallAtEntry(fslist)

NextMountall ==
    \/ MountOne
    \/ MountFailsAt
    \/ MountallReturn
    \/ UndoOne
    \/ MountallExit

SpecMountall == InitMountall /\ [][NextMountall]_vars

\* C26: when mountall has failed and the process exits, every mount the
\* call established is undone: the basepath mounts of the file systems
\* before the failing one and every server export-path mount, the one made
\* for the failing file system included.
C26_MountsUndoneOnFailure == mnt.pc = "exited" => mnt.mounts = {}

\* What the undo loop does reach: a basepath is left mounted only if it is
\* of a file system before the failing one (whose forced unmount failed).
BasepathsUndoneOrBusy ==
    mnt.pc = "exited" =>
        \A m \in mnt.mounts : m[1] = "basepath" => m[2] < mnt.failpos

\* ------------------------------------------------- mount.c: freeze and thaw

FIFREEZE == "FIFREEZE"
FITHAW   == "FITHAW"

\* What the operating system answers in one call of freeze_or_thaw: open()
\* of the mount point fails; the ioctl succeeds; the ioctl fails and the
\* remount succeeds; both fail.
FreezeOutcomes == {"open_fails", "ioctl_ok", "remount_ok", "remount_fails"}

\* The kernel freezes only a file system that is not frozen and thaws only
\* a frozen one.
Answers(m, i, op, out) ==
    out = "ioctl_ok" => (IF op = FIFREEZE THEN ~m.frozen[i] ELSE m.frozen[i])

\* set_fs_frozen_flag(mountpoint, value): the mount point is basepath i.
set_fs_frozen_flag(m, i, value) ==
    [m EXCEPT !.fs_frozen[i] = value]

\* freeze_or_thaw(caller, fstype, devpath, basepath i, op) with the answer
\* out.  frozen and readonly are the state of the file system itself.
freeze_or_thaw(m, i, op, out) ==
    CASE out = "open_fails" -> [m |-> m, ret |-> -1]
      [] out = "ioctl_ok" ->
            [m |-> set_fs_frozen_flag(
                       [m EXCEPT !.frozen[i] = (op = FIFREEZE)],
                       i, op = FIFREEZE),
             ret |-> 0]
      [] out = "remount_ok" ->
            [m |-> [m EXCEPT !.readonly[i] = (op = FIFREEZE)], ret |-> 0]
      [] OTHER -> [m |-> m, ret |-> -1]

\* The file systems, none frozen, before the first call.  froze and thawed
\* record for which of them fsfreeze and fsthaw have returned 0; calls counts
\* the calls of fsfreeze and fsthaw.
FreezeAtStart(n) ==
    [ pc |-> "idle", n |-> n, i |-> 0, calls |-> 0,
      frozen    |-> [k \in 1..n |-> FALSE],
      readonly  |-> [k \in 1..n |-> FALSE],
      fs_frozen |-> [k \in 1..n |-> FALSE],
      froze     |-> [k \in 1..n |-> FALSE],
      thawed    |-> [k \in 1..n |-> FALSE] ]

\* fsfreeze(fstype, devpath, basepath i).
FsFreeze ==
    /\ mnt.pc = "idle" /\ mnt.calls < MaxCalls
    /\ \E i \in 1..mnt.n, out \in FreezeOutcomes :
          /\ Answers(mnt, i, FIFREEZE, out)
          /\ LET r == freeze_or_thaw(mnt, i, FIFREEZE, out) IN
               mnt' = [r.m EXCEPT !.calls = @ + 1,
                                  !.froze[i] = @ \/ r.ret = 0]
    /\ UNCHANGED << walker, prn, peer, sys, chk, rep >>

\* fsthaw(fstype, devpath, basepath i).
FsThaw ==
    /\ mnt.pc = "idle" /\ mnt.calls < MaxCalls
    /\ \E i \in 1..mnt.n, out \in FreezeOutcomes :
          /\ Answers(mnt, i, FITHAW, out)
          /\ LET r == freeze_or_thaw(mnt, i, FITHAW, out) IN
               mnt' = [r.m EXCEPT !.calls = @ + 1,
                                  !.thawed[i] = @ \/ r.ret = 0]
    /\ UNCHANGED << walker, prn, peer, sys, chk, rep >>

\* unfreeze_all() is called.
CallUnfreezeAll ==
    /\ mnt.pc = "idle"
    /\ mnt' = [mnt EXCEPT !.pc = "unfreezing", !.i = 1]
    /\ UNCHANGED << walker, prn, peer, sys, chk, rep >>

\* One iteration of its loop: fsthaw if fs_frozen[i]; the result is dropped.
UnfreezeOne ==
    /\ mnt.pc = "unfreezing" /\ mnt.i <= mnt.n
    /\ IF mnt.fs_frozen[mnt.i]
       THEN \E out \in FreezeOutcomes :
               /\ Answers(mnt, mnt.i, FITHAW, out)
               /\ mnt' = [freeze_or_thaw(mnt, mnt.i, FITHAW, out).m
                             EXCEPT !.i = @ + 1]
       ELSE mnt' = [mnt EXCEPT !.i = @ + 1]
    /\ UNCHANGED << walker, prn, peer, sys, chk, rep >>

UnfreezeReturn ==
    /\ mnt.pc = "unfreezing" /\ mnt.i > mnt.n
    /\ mnt' = [mnt EXCEPT !.pc = "done"]
    /\ UNCHANGED << walker, prn, peer, sys, chk, rep >>

InitFreeze ==
    /\ AsideOfMount
    /\ \E n \in 1..MaxFs : mnt = FreezeAtStart(n)

NextFreeze ==
    \/ FsFreeze
    \/ FsThaw
    \/ CallUnfreezeAll
    \/ UnfreezeOne
    \/ UnfreezeReturn

SpecFreeze == InitFreeze /\ [][NextFreeze]_vars

\* C27: after any calls of fsfreeze and fsthaw and then unfreeze_all, no
\* file system for which fsfreeze returned 0 is frozen or read-only.
C27_NothingLeftFrozen ==
    mnt.pc = "done" =>
        \A i \in 1..mnt.n :
            mnt.froze[i] => ~mnt.frozen[i] /\ ~mnt.readonly[i]

\* The part of the claim about the record: between calls, a file system
\* frozen by the ioctl and not thawed by it since has its flag set.
FrozenIsRecorded ==
    mnt.pc = "idle" => \A i \in 1..mnt.n : mnt.frozen[i] = mnt.fs_frozen[i]

\* ------------------------------------- the reproducer: scan of a sequence log

MaxLog == 5

MAX_LINE_LENGTH == 256

\* The newline character.
LF == "LF"

\* The word the scan looks for, "checkpoint", written with two letters so
\* that logs of MaxLog characters hold it whole, cut, and more than once.
checkpoint == << "c", "k" >>

\* The sequence logs: every text of up to MaxLog characters.
LogChars == {"c", "k", "a", LF}
Logs == UNION { [1..n -> LogChars] : n \in 0..MaxLog }

\* What the array line may hold before anything is read into it.
UninitLines == { << >>, << "a", LF >>, checkpoint \o << LF >> }

\* fseek(fp, offset, SEEK_SET): fails and leaves the position when offset is
\* negative.
fseek(pos, offset) == IF offset < 0 THEN pos ELSE offset

\* fgets(line, n, fp) at position pos of file: at most n - 1 characters, up
\* to and with the first newline; NULL, with line untouched, at end of file.
fgets(line, n, file, pos) ==
    IF pos >= Len(file) \/ n < 2
    THEN [null |-> TRUE, line |-> line, pos |-> pos]
    ELSE LET avail == IF Len(file) - pos < n - 1 THEN Len(file) - pos ELSE n - 1
             nls == { j \in 1..avail : file[pos + j] = LF }
             len == IF nls = {} THEN avail
                    ELSE CHOOSE j \in nls : \A l \in nls : j <= l
         IN  [null |-> FALSE, line |-> SubSeq(file, pos + 1, pos + len),
              pos |-> pos + len]

\* main after fseek(fp, 0L, SEEK_END) and current_pos = ftell(fp).  pos is
\* the position of fp, out what the last loop has printed.  A negative
\* current_pos is kept as -1: nothing can raise it again, and the loop test
\* and fseek use its sign only.  odd tells whether the reverse loop has made
\* an odd number of iterations.
ReproducerAtScan(file, garbage) ==
    [ pc |-> "scan", file |-> file, pos |-> Len(file),
      current_pos |-> Len(file), line |-> garbage,
      found_checkpoint |-> FALSE, out |-> << >>, odd |-> FALSE ]

\* One iteration of the reverse loop.
ScanBack ==
    /\ rep.pc = "scan" /\ rep.current_pos # 0
    /\ LET offset == rep.pos
           g == fgets(rep.line, MAX_LINE_LENGTH, rep.file,
                      fseek(rep.pos, offset - 2))
       IN  IF strstr(g.line, checkpoint)
           THEN rep' = [rep EXCEPT !.line = g.line, !.pos = g.pos,
                                   !.odd = ~@,
                                   !.found_checkpoint = TRUE, !.pc = "skip"]
           ELSE LET cp == rep.current_pos - Len(g.line)
                    c  == IF cp < 0 THEN -1 ELSE cp
                IN  rep' = [rep EXCEPT !.line = g.line,
                                       !.odd = ~@,
                                       !.current_pos = c,
                                       !.pos = fseek(g.pos, c)]
    /\ UNCHANGED << walker, prn, peer, sys, chk, mnt >>

\* The reverse loop ends at current_pos = 0 with nothing found: fclose and
\* return.
ScanEnds ==
    /\ rep.pc = "scan" /\ rep.current_pos = 0
    /\ rep' = [rep EXCEPT !.pc = "exit"]
    /\ UNCHANGED << walker, prn, peer, sys, chk, mnt >>

\* After a checkpoint was found: one fgets whose line is not used.
SkipLine ==
    /\ rep.pc = "skip"
    /\ LET g == fgets(rep.line, MAX_LINE_LENGTH, rep.file, rep.pos) IN
         rep' = [rep EXCEPT !.line = g.line, !.pos = g.pos, !.pc = "print"]
    /\ UNCHANGED << walker, prn, peer, sys, chk, mnt >>

\* One iteration of the loop that prints the rest of the file, or its end.
PrintLine ==
    /\ rep.pc = "print"
    /\ LET g == fgets(rep.line, MAX_LINE_LENGTH, rep.file, rep.pos) IN
         IF g.null THEN rep' = [rep EXCEPT !.pc = "exit"]
         ELSE rep' = [rep EXCEPT !.line = g.line, !.pos = g.pos,
                                 !.out = Append(@, g.line)]
    /\ UNCHANGED << walker, prn, peer, sys, chk, mnt >>

InitReproducer ==
    /\ WalkerIdle
    /\ prn = NoPrint
    /\ peer = NoPeer
    /\ sys = NoSys
    /\ chk = NoChk
    /\ mnt = NoMnt
    /\ \E file \in Logs, garbage \in UninitLines :
          rep = ReproducerAtScan(file, garbage)

NextReproducer ==
    \/ ScanBack
    \/ ScanEnds
    \/ SkipLine
    \/ PrintLine

\* The calls of the C library return, so the program goes on while it can.
SpecReproducer ==
    InitReproducer /\ [][NextReproducer]_vars /\ WF_vars(NextReproducer)

\* The lines of a text, each with its newline (the last may have none).
RECURSIVE LinesOf(_)
LinesOf(text) ==
    IF text = << >> THEN << >>
    ELSE LET g == fgets(<< >>, Len(text) + 2, text, 0)
         IN  << g.line >> \o LinesOf(SubSeq(text, g.pos + 1, Len(text)))

\* The number of the last line of the log that holds the word; 0 if none.
LastCheckpoint(file) ==
    LET ls == LinesOf(file)
        S  == { i \in 1..Len(ls) : strstr(ls[i], checkpoint) }
    IN  IF S = {} THEN 0 ELSE CHOOSE i \in S : \A j \in S : j <= i

\* At its end the reproducer has found the last checkpoint line of a log
\* that has one, and has printed the lines after it and nothing else.
PrintedFromLastCheckpoint ==
    (rep.pc = "exit" /\ LastCheckpoint(rep.file) > 0) =>
        LET ls == LinesOf(rep.file)
        IN  /\ rep.found_checkpoint
            /\ rep.out = SubSeq(ls, LastCheckpoint(rep.file) + 1, Len(ls))

\* C28: the reverse scan ends for every log, and for a log with a
\* checkpoint line it stops at the last one and the lines printed are
\* exactly the lines after it.
C28_ReverseScanTerminates ==
    <>(rep.pc = "exit") /\ [](PrintedFromLastCheckpoint)

====
